---- MODULE Spec2Model ----
(***************************************************************************)
(* Model of the Figma-to-React generator (mcp-figma-to-react).             *)
(*                                                                         *)
(* Text is modelled by TLA+ strings: Len, \o and SubSeq act on them as on  *)
(* JavaScript strings, so names, class lists, markup and component source  *)
(* are the actual character sequences the code builds.                     *)
(*                                                                         *)
(* Conventions for DesignNode records (FigmaNode, figma-client.ts 4-9):    *)
(*   characters = ""     models an absent or empty text content            *)
(*   children, fills, strokes, effects = << >>  model absent or empty      *)
(*   cornerRadius, strokeWeight, fontSize, fontWeight = 0  model absent    *)
(*     or zero (the code only tests them for truthiness before use)        *)
(*   an optional sub-object (style, absoluteBoundingBox, color, offset,    *)
(*     width, height) is a sequence of length 0 (absent) or 1 (present)    *)
(*   colour channels r, g, b are given in 255ths (255 models 1.0), opacity *)
(*     in thousandths (500 models 0.5), lineHeight and letterSpacing in    *)
(*     hundredths (125 models 1.25)                                        *)
(* A raised exception is the record [threw |-> TRUE]; a normal return is   *)
(* [threw |-> FALSE, val |-> v].                                           *)
(***************************************************************************)
EXTENDS Integers, Sequences, FiniteSets, TLC

VARIABLES
  translation,      \* the last call of the translator: node, level, result
  styling,      \* the last call of the style mapper: node, result
  generation,     \* the last call of a ComponentGenerator method
  calls,   \* the generateReactComponent calls made so far on one generator
  toolCall,     \* the React tool call being handled
  rewriting,     \* the last call of the accessibility rewriter: markup, node, result
  main     \* the server process: position, shared server instance, SSE requests

vars == <<translation, styling, generation, calls, toolCall, rewriting, main>>

(***************************************************************************)
(* JavaScript string primitives                                            *)
(***************************************************************************)
LowerAZ == "abcdefghijklmnopqrstuvwxyz"
UpperAZ == "ABCDEFGHIJKLMNOPQRSTUVWXYZ"
DigitChars == "0123456789"

charAt(s, i) == IF i >= 1 /\ i <= Len(s) THEN SubSeq(s, i, i) ELSE ""

\* position of the one-character string c in alphabet, 0 when absent
PosIn(c, alphabet) ==
  LET S == {i \in 1..Len(alphabet) : SubSeq(alphabet, i, i) = c}
  IN  IF S = {} THEN 0 ELSE CHOOSE i \in S : TRUE

toLowerChar(c) ==
  LET p == PosIn(c, UpperAZ) IN IF p = 0 THEN c ELSE SubSeq(LowerAZ, p, p)

toUpperChar(c) ==
  LET p == PosIn(c, LowerAZ) IN IF p = 0 THEN c ELSE SubSeq(UpperAZ, p, p)

RECURSIVE toLowerCase(_)
toLowerCase(s) ==
  IF Len(s) = 0 THEN "" ELSE toLowerChar(Head(s)) \o toLowerCase(Tail(s))

\* regular-expression character classes \w and \s, and the class [-_\s]
IsWordChar(c) ==
  PosIn(c, LowerAZ) > 0 \/ PosIn(c, UpperAZ) > 0 \/ PosIn(c, DigitChars) > 0 \/ c = "_"

IsSpaceChar(c) == c \in {" ", "\t", "\n"}

IsSeparator(c) == c = "-" \/ c = "_" \/ IsSpaceChar(c)

\* first index >= from at which sub occurs in s, 0 when it does not
indexOf(s, sub, from) ==
  LET S == {i \in from..(Len(s) - Len(sub) + 1) : SubSeq(s, i, i + Len(sub) - 1) = sub}
  IN  IF S = {} THEN 0 ELSE CHOOSE i \in S : \A j \in S : i <= j

includes(s, sub) == indexOf(s, sub, 1) > 0

RECURSIVE join(_, _)
join(parts, sep) ==
  IF Len(parts) = 0 THEN ""
  ELSE IF Len(parts) = 1 THEN parts[1]
  ELSE parts[1] \o sep \o join(Tail(parts), sep)

RECURSIVE repeat(_, _)
repeat(s, n) == IF n <= 0 THEN "" ELSE s \o repeat(s, n - 1)

\* s.replace(/[^\w\s-]/g, '')
RECURSIVE removeInvalid(_)
removeInvalid(s) ==
  IF Len(s) = 0 THEN ""
  ELSE LET c == Head(s)
       IN  (IF IsWordChar(c) \/ IsSpaceChar(c) \/ c = "-" THEN c ELSE "")
             \o removeInvalid(Tail(s))

\* s.replace(/\s+/g, '-')
RECURSIVE dashSpaces(_)
dashSpaces(s) ==
  IF Len(s) = 0 THEN ""
  ELSE IF IsSpaceChar(Head(s))
       THEN IF Len(s) > 1 /\ IsSpaceChar(charAt(s, 2))
            THEN dashSpaces(Tail(s))
            ELSE "-" \o dashSpaces(Tail(s))
       ELSE Head(s) \o dashSpaces(Tail(s))

\* s.split(/[-_\s]+/): cur is the word being read, inSep tells that the
\* previous character was a separator
RECURSIVE splitFrom(_, _, _)
splitFrom(s, cur, inSep) ==
  IF Len(s) = 0 THEN <<cur>>
  ELSE IF IsSeparator(Head(s))
       THEN IF inSep THEN splitFrom(Tail(s), cur, TRUE)
            ELSE <<cur>> \o splitFrom(Tail(s), "", TRUE)
       ELSE splitFrom(Tail(s), cur \o Head(s), FALSE)

split(s) == splitFrom(s, "", FALSE)

\* word.charAt(0).toUpperCase() + word.slice(1).toLowerCase()
capitalize(word) ==
  IF Len(word) = 0 THEN "" ELSE toUpperChar(Head(word)) \o toLowerCase(Tail(word))

\* JSON.stringify of a string
RECURSIVE jsonEscape(_)
jsonEscape(s) ==
  IF Len(s) = 0 THEN ""
  ELSE LET c == Head(s)
       IN  (IF c = "\"" THEN "\\\""
            ELSE IF c = "\\" THEN "\\\\"
            ELSE IF c = "\n" THEN "\\n"
            ELSE IF c = "\t" THEN "\\t"
            ELSE c) \o jsonEscape(Tail(s))

JSONstringify(s) == "\"" \o jsonEscape(s) \o "\""

(***************************************************************************)
(* component-generator.ts: name helpers                                    *)
(***************************************************************************)
toComponentName(name) ==
  LET words == split(removeInvalid(name))
  IN  join([i \in 1..Len(words) |-> capitalize(words[i])], "")

toPropName(name) ==
  LET parts == split(removeInvalid(name))
      rest  == Tail(parts)
  IN  toLowerCase(parts[1]) \o join([i \in 1..Len(rest) |-> capitalize(rest[i])], "")

(***************************************************************************)
(* Exceptions and optional values                                          *)
(***************************************************************************)
Threw == [threw |-> TRUE]
Return(v) == [threw |-> FALSE, val |-> v]

Absent == << >>
Some(v) == <<v>>
Present(opt) == Len(opt) > 0

(***************************************************************************)
(* Style mapper (convertFigmaStylesToTailwind and its helpers)             *)
(***************************************************************************)
HexChars == "0123456789abcdef"

\* Math.round(x).toString(16).padStart(2, "0") for each channel; the channel
\* argument is r * 255, an integer because r is given in 255ths
rgbToHex(r, g, b) ==
  LET hex2(n) == charAt(HexChars, (n \div 16) + 1) \o charAt(HexChars, (n % 16) + 1)
  IN  "#" \o hex2(r) \o hex2(g) \o hex2(b)

\* parseInt(s.slice(from - 1, from + 1), 16)
parseHex2(s, from) ==
  16 * (PosIn(charAt(s, from), HexChars) - 1) + (PosIn(charAt(s, from + 1), HexChars) - 1)

tailwindColors ==
  << [hex |-> "#000000", className |-> "text-black"],
     [hex |-> "#ffffff", className |-> "text-white"],
     [hex |-> "#ef4444", className |-> "text-red-500"],
     [hex |-> "#3b82f6", className |-> "text-blue-500"],
     [hex |-> "#10b981", className |-> "text-green-500"],
     [hex |-> "#f59e0b", className |-> "text-yellow-500"],
     [hex |-> "#6366f1", className |-> "text-indigo-500"],
     [hex |-> "#8b5cf6", className |-> "text-purple-500"],
     [hex |-> "#ec4899", className |-> "text-pink-500"],
     [hex |-> "#6b7280", className |-> "text-gray-500"] >>

\* The loop keeps the first palette entry of minimal distance (strict <).
\* The squared distance is compared: Math.sqrt is monotonic.
mapToTailwindColor(hexColor) ==
  LET r1 == parseHex2(hexColor, 2)
      g1 == parseHex2(hexColor, 4)
      b1 == parseHex2(hexColor, 6)
      sq(d) == d * d
      dist(i) == sq(r1 - parseHex2(tailwindColors[i].hex, 2))
               + sq(g1 - parseHex2(tailwindColors[i].hex, 4))
               + sq(b1 - parseHex2(tailwindColors[i].hex, 6))
      best == CHOOSE i \in 1..Len(tailwindColors) :
                \A j \in 1..Len(tailwindColors) :
                  dist(i) < dist(j) \/ (dist(i) = dist(j) /\ i <= j)
  IN  tailwindColors[best].className

\* mapFontSizeToTailwind with exclusive upper bounds
mapFontSizeExclusive(fontSize) ==
  IF fontSize < 12 THEN "text-xs"
  ELSE IF fontSize < 14 THEN "text-sm"
  ELSE IF fontSize < 16 THEN "text-base"
  ELSE IF fontSize < 18 THEN "text-lg"
  ELSE IF fontSize < 20 THEN "text-xl"
  ELSE IF fontSize < 24 THEN "text-2xl"
  ELSE IF fontSize < 30 THEN "text-3xl"
  ELSE IF fontSize < 36 THEN "text-4xl"
  ELSE IF fontSize < 48 THEN "text-5xl"
  ELSE "text-6xl"

mapFontSizeToTailwind(fontSize) ==
  IF fontSize <= 12 THEN "text-xs"
  ELSE IF fontSize <= 14 THEN "text-sm"
  ELSE IF fontSize <= 16 THEN "text-base"
  ELSE IF fontSize <= 18 THEN "text-lg"
  ELSE IF fontSize <= 20 THEN "text-xl"
  ELSE IF fontSize <= 24 THEN "text-2xl"
  ELSE IF fontSize <= 30 THEN "text-3xl"
  ELSE IF fontSize <= 36 THEN "text-4xl"
  ELSE IF fontSize <= 48 THEN "text-5xl"
  ELSE "text-6xl"

mapFontWeightToTailwind(fontWeight) ==
  IF fontWeight < 400 THEN "font-light"
  ELSE IF fontWeight < 500 THEN "font-normal"
  ELSE IF fontWeight < 600 THEN "font-medium"
  ELSE IF fontWeight < 700 THEN "font-semibold"
  ELSE "font-bold"

\* size is an optional number: every comparison with undefined is false
mapToTailwindSize(size) ==
  LET le(k) == Present(size) /\ size[1] <= k
  IN  IF le(4) THEN "1"
      ELSE IF le(8) THEN "2"
      ELSE IF le(12) THEN "3"
      ELSE IF le(16) THEN "4"
      ELSE IF le(20) THEN "5"
      ELSE IF le(24) THEN "6"
      ELSE IF le(32) THEN "8"
      ELSE IF le(40) THEN "10"
      ELSE IF le(48) THEN "12"
      ELSE IF le(64) THEN "16"
      ELSE IF le(80) THEN "20"
      ELSE IF le(96) THEN "24"
      ELSE IF le(128) THEN "32"
      ELSE IF le(160) THEN "40"
      ELSE IF le(192) THEN "48"
      ELSE IF le(256) THEN "64"
      ELSE IF le(320) THEN "80"
      ELSE IF le(384) THEN "96"
      ELSE "full"

\* s.replace(pat, rep) with a string pattern: the first occurrence only
replaceFirst(s, pat, rep) ==
  LET i == indexOf(s, pat, 1)
  IN  IF i = 0 THEN s
      ELSE SubSeq(s, 1, i - 1) \o rep \o SubSeq(s, i + Len(pat), Len(s))

\* lines 246-262; opacity is in thousandths, Math.round rounds half up
fillClasses(n) ==
  IF Len(n.fills) > 0 /\ n.fills[1].type = "SOLID"
  THEN IF ~Present(n.fills[1].color) THEN Threw
       ELSE LET fill == n.fills[1]
                c == fill.color[1]
                tailwindColor == mapToTailwindColor(rgbToHex(c.r, c.g, c.b))
                opacityValue == (fill.opacity[1] + 5) \div 10
            IN  Return(<<tailwindColor>> \o
                  (IF Present(fill.opacity) /\ fill.opacity[1] # 0 /\ fill.opacity[1] < 1000
                   THEN <<"opacity-" \o ToString(opacityValue)>> ELSE << >>))
  ELSE Return(<< >>)

\* lines 264-298; lineHeight and letterSpacing are in hundredths
typographyClasses(n) ==
  IF ~Present(n.style) THEN << >>
  ELSE LET st == n.style[1]
       IN  (IF st.fontSize # 0 THEN <<mapFontSizeToTailwind(st.fontSize)>> ELSE << >>)
        \o (IF st.fontWeight # 0 THEN <<mapFontWeightToTailwind(st.fontWeight)>> ELSE << >>)
        \o (IF st.lineHeight # 0
            THEN IF st.lineHeight <= 100 THEN <<"leading-none">>
                 ELSE IF st.lineHeight <= 125 THEN <<"leading-tight">>
                 ELSE IF st.lineHeight <= 150 THEN <<"leading-normal">>
                 ELSE IF st.lineHeight <= 175 THEN <<"leading-relaxed">>
                 ELSE <<"leading-loose">>
            ELSE << >>)
        \o (IF st.letterSpacing # 0
            THEN IF st.letterSpacing <= -5 THEN <<"tracking-tighter">>
                 ELSE IF st.letterSpacing <= 0 THEN <<"tracking-tight">>
                 ELSE IF st.letterSpacing <= 5 THEN <<"tracking-normal">>
                 ELSE IF st.letterSpacing <= 10 THEN <<"tracking-wide">>
                 ELSE <<"tracking-wider">>
            ELSE << >>)

\* lines 300-305
sizeClasses(n) ==
  IF ~Present(n.absoluteBoundingBox) THEN << >>
  ELSE LET box == n.absoluteBoundingBox[1]
       IN  <<"w-" \o mapToTailwindSize(box.width), "h-" \o mapToTailwindSize(box.height)>>

\* lines 307-319
radiusClasses(n) ==
  LET cr == n.cornerRadius
  IN  IF cr = 0 THEN << >>
      ELSE IF cr <= 2 THEN <<"rounded-sm">>
      ELSE IF cr <= 4 THEN <<"rounded">>
      ELSE IF cr <= 6 THEN <<"rounded-md">>
      ELSE IF cr <= 8 THEN <<"rounded-lg">>
      ELSE IF cr <= 12 THEN <<"rounded-xl">>
      ELSE IF cr <= 16 THEN <<"rounded-2xl">>
      ELSE IF cr <= 24 THEN <<"rounded-3xl">>
      ELSE <<"rounded-full">>

\* lines 321-343
strokeClasses(n) ==
  IF Len(n.strokes) > 0 /\ n.strokes[1].type = "SOLID"
  THEN IF ~Present(n.strokes[1].color) THEN Threw
       ELSE LET c == n.strokes[1].color[1]
                tailwindColor ==
                  replaceFirst(mapToTailwindColor(rgbToHex(c.r, c.g, c.b)), "text-", "border-")
                sw == n.strokeWeight
            IN  Return(<<tailwindColor>> \o
                  (IF sw = 0 THEN << >>
                   ELSE IF sw <= 1 THEN <<"border">>
                   ELSE IF sw <= 2 THEN <<"border-2">>
                   ELSE IF sw <= 4 THEN <<"border-4">>
                   ELSE <<"border-8">>))
  ELSE Return(<< >>)

\* lines 345-367: the first DROP_SHADOW effect decides
shadowClasses(n) ==
  LET S == {i \in 1..Len(n.effects) : n.effects[i].type = "DROP_SHADOW"}
  IN  IF S = {} THEN Return(<< >>)
      ELSE LET shadowEffect == n.effects[CHOOSE i \in S : \A j \in S : i <= j]
           IN  IF ~Present(shadowEffect.offset) THEN Threw
               ELSE LET off == shadowEffect.offset[1]
                        radius == shadowEffect.radius
                    IN  Return(
                          IF off.x = 0 /\ off.y = 1 /\ radius <= 2 THEN <<"shadow-sm">>
                          ELSE IF off.y <= 3 /\ radius <= 4 THEN <<"shadow">>
                          ELSE IF off.y <= 8 /\ radius <= 10 THEN <<"shadow-md">>
                          ELSE IF off.y <= 15 /\ radius <= 15 THEN <<"shadow-lg">>
                          ELSE <<"shadow-xl">>)

\* The categories are evaluated in source order; the first one that raises
\* ends the call.
convertFigmaStylesToTailwind(figmaStyles) ==
  LET f == fillClasses(figmaStyles)
      s == strokeClasses(figmaStyles)
      e == shadowClasses(figmaStyles)
  IN  IF f.threw \/ s.threw \/ e.threw THEN Threw
      ELSE Return(f.val \o typographyClasses(figmaStyles) \o sizeClasses(figmaStyles)
                    \o radiusClasses(figmaStyles) \o s.val \o e.val)

(***************************************************************************)
(* Node classifier and prop extractor (component-generator.ts 43-102)      *)
(***************************************************************************)
NoDefault == ""

isButtonName(name) ==
  includes(toLowerCase(name), "button") \/ includes(toLowerCase(name), "btn")

isContainerName(name) ==
  \/ includes(toLowerCase(name), "container")
  \/ includes(toLowerCase(name), "wrapper")
  \/ includes(toLowerCase(name), "layout")
  \/ includes(toLowerCase(name), "section")

textProp(node) ==
  [name |-> IF toPropName(node.name) # "" THEN toPropName(node.name) ELSE "text",
   type |-> "string",
   defaultValue |-> JSONstringify(node.characters),
   description |-> "Text content for " \o node.name]

variantProp ==
  [name |-> "variant", type |-> "'primary' | 'secondary' | 'outline' | 'text'",
   defaultValue |-> "'primary'", description |-> "Visual variant of the component"]

onClickProp ==
  [name |-> "onClick", type |-> "() => void", defaultValue |-> NoDefault,
   description |-> "Function called when button is clicked"]

childrenProp ==
  [name |-> "children", type |-> "React.ReactNode", defaultValue |-> NoDefault,
   description |-> "Child elements to render inside the component"]

classNameProp ==
  [name |-> "className", type |-> "string", defaultValue |-> NoDefault,
   description |-> "Additional CSS classes to apply"]

\* extractProps with the className rule applied first
extractPropsClassFirst(node) ==
     <<classNameProp>>
  \o (IF node.type = "TEXT" /\ node.characters # "" THEN <<textProp(node)>> ELSE << >>)
  \o (IF includes(toLowerCase(node.name), "variant") THEN <<variantProp>> ELSE << >>)
  \o (IF isButtonName(node.name) THEN <<onClickProp>> ELSE << >>)
  \o (IF Len(node.children) > 0 /\ isContainerName(node.name) THEN <<childrenProp>> ELSE << >>)

extractProps(node) ==
     (IF node.type = "TEXT" /\ node.characters # "" THEN <<textProp(node)>> ELSE << >>)
  \o (IF includes(toLowerCase(node.name), "variant") THEN <<variantProp>> ELSE << >>)
  \o (IF isButtonName(node.name) THEN <<onClickProp>> ELSE << >>)
  \o (IF Len(node.children) > 0 /\ isContainerName(node.name) THEN <<childrenProp>> ELSE << >>)
  \o <<classNameProp>>

(***************************************************************************)
(* Tree-to-markup translator (figmaNodeToJSX, component-generator.ts       *)
(* 105-222)                                                                *)
(***************************************************************************)
ShapeTypes == {"RECTANGLE", "ELLIPSE", "POLYGON", "STAR", "VECTOR", "LINE"}
ContainerTypes == {"COMPONENT", "INSTANCE", "FRAME", "GROUP"}

nameClass(node) == dashSpaces(toLowerCase(node.name))

RECURSIVE flatten(_)
flatten(seqs) == IF Len(seqs) = 0 THEN << >> ELSE Head(seqs) \o flatten(Tail(seqs))

\* lines 156-167: the children markup, each child on its own indented line
childrenMarkup(childJsx, level) ==
  IF Len(childJsx) = 0 THEN ""
  ELSE join([i \in 1..Len(childJsx) |-> "\n" \o repeat("  ", level + 1) \o childJsx[i]], "")
         \o "\n" \o repeat("  ", level)

\* containerResult with the placeholder emitted in front of the inlined
\* children instead of in their place
containerResultBoth(node, classes, childrenJSX, imports, allProps) ==
  LET containerProps == extractProps(node)
      hasChildrenProp == \E i \in 1..Len(containerProps) : containerProps[i].name = "children"
  IN  [jsx |-> "<div \n  className=\"" \o join(classes, " ") \o " " \o nameClass(node)
                 \o "\"\n>" \o (IF hasChildrenProp THEN "{children}" ELSE "") \o childrenJSX
                 \o "</div>",
       imports |-> imports,
       props |-> containerProps \o allProps]

\* containerResult keeping the container's own properties only
containerResultOwnProps(node, classes, childrenJSX, imports, allProps) ==
  LET containerProps == extractProps(node)
      hasChildrenProp == \E i \in 1..Len(containerProps) : containerProps[i].name = "children"
  IN  IF isButtonName(node.name)
      THEN [jsx |-> "<button \n  className=\"" \o join(classes, " ") \o " " \o nameClass(node)
                      \o "\"\n  onClick={onClick}\n>" \o childrenJSX \o "</button>",
            imports |-> imports,
            props |-> containerProps]
      ELSE [jsx |-> "<div \n  className=\"" \o join(classes, " ") \o " " \o nameClass(node)
                      \o "\"\n>" \o (IF hasChildrenProp THEN "{children}" ELSE childrenJSX)
                      \o "</div>",
            imports |-> imports,
            props |-> containerProps]

\* lines 169-190: the element emitted for a container, given its children
containerResult(node, classes, childrenJSX, imports, allProps) ==
  LET containerProps == extractProps(node)
      hasChildrenProp == \E i \in 1..Len(containerProps) : containerProps[i].name = "children"
  IN  IF isButtonName(node.name)
      THEN [jsx |-> "<button \n  className=\"" \o join(classes, " ") \o " " \o nameClass(node)
                      \o "\"\n  onClick={onClick}\n>" \o childrenJSX \o "</button>",
            imports |-> imports,
            props |-> containerProps \o allProps]
      ELSE [jsx |-> "<div \n  className=\"" \o join(classes, " ") \o " " \o nameClass(node)
                      \o "\"\n>" \o (IF hasChildrenProp THEN "{children}" ELSE childrenJSX)
                      \o "</div>",
            imports |-> imports,
            props |-> containerProps \o (IF hasChildrenProp THEN << >> ELSE allProps)]

\* the accumulator of an earlier call seen again by the next one, as if it
\* were declared outside the function
sharedProps ==
  IF Len(calls) > 0 /\ ~calls[Len(calls)].out.threw
  THEN calls[Len(calls)].out.val.uniqueProps ELSE << >>

\* lines 106-107: every call starts from empty accumulators
freshProps == << >>
freshImports == << >>

RECURSIVE figmaNodeToJSX(_, _)
figmaNodeToJSX(node, level) ==
  LET \* classes is convertFigmaStylesToTailwind(node), called by every branch
      \* but the last; childResults are the recursive calls of lines 152-165
      translated(classes, childResults) ==
        IF node.type = "TEXT" THEN
          IF classes.threw THEN Threw
          ELSE Return([jsx |-> "<p className=\"" \o join(classes.val, " ") \o "\">{"
                                 \o extractProps(node)[1].name \o "}</p>",
                       imports |-> << >>,
                       props |-> extractProps(node)])
        ELSE IF node.type \in ShapeTypes THEN
          IF classes.threw THEN Threw
          ELSE Return([jsx |-> "<div className=\"" \o join(classes.val, " ") \o " "
                                 \o toLowerCase(node.type) \o " " \o nameClass(node) \o "\"></div>",
                       imports |-> << >>,
                       props |-> << >>])
        ELSE IF node.type \in ContainerTypes THEN
          IF classes.threw \/ \E i \in 1..Len(childResults) : childResults[i].threw
          THEN Threw
          ELSE Return(containerResult(node, classes.val,
                 childrenMarkup([i \in 1..Len(childResults) |-> childResults[i].val.jsx], level),
                 freshImports \o flatten([i \in 1..Len(childResults) |-> childResults[i].val.imports]),
                 freshProps \o flatten([i \in 1..Len(childResults) |-> childResults[i].val.props])))
        ELSE IF node.type = "IMAGE" THEN
          IF classes.threw THEN Threw
          ELSE Return([jsx |-> "<img \n  src=\"" \o nameClass(node) \o ".png\" \n  className=\""
                                 \o join(classes.val, " ") \o "\" \n  alt=\"" \o node.name
                                 \o "\"\n/>",
                       imports |-> << >>,
                       props |-> <<[name |-> "src", type |-> "string", defaultValue |-> NoDefault,
                                    description |-> "Image source URL"]>>])
        ELSE Return([jsx |-> "<div className=\"" \o nameClass(node) \o "\"></div>",
                     imports |-> << >>,
                     props |-> << >>])
  IN  translated(convertFigmaStylesToTailwind(node),
                 [i \in 1..Len(node.children) |-> figmaNodeToJSX(node.children[i], level + 1)])

(***************************************************************************)
(* Accessibility rewriter (accessibility.ts 3-143)                         *)
(***************************************************************************)
\* s.replace(/open([^>]*)>/g, pre + "$1" + post) where open is literal text
RECURSIVE replaceTag(_, _, _, _)
replaceTag(s, open, pre, post) ==
  LET i == indexOf(s, open, 1)
      j == IF i = 0 THEN 0 ELSE indexOf(s, ">", i + Len(open))
  IN  IF i = 0 \/ j = 0 THEN s
      ELSE SubSeq(s, 1, i - 1) \o pre \o SubSeq(s, i + Len(open), j - 1) \o post
             \o replaceTag(SubSeq(s, j + 1, Len(s)), open, pre, post)

\* s.replace(/<div([^>]*)>(.*?)<\/div>/g, pre + "$1" + mid + "$2" + post), the
\* "$2" being left out when keepContent is false.  "." matches no newline, so
\* an opening tag whose content up to the next "</div>" spans a line is no
\* match and the search resumes one character further.
RECURSIVE replaceDivPair(_, _, _, _, _, _)
replaceDivPair(s, from, pre, mid, keepContent, post) ==
  LET i == indexOf(s, "<div", from)
      j == IF i = 0 THEN 0 ELSE indexOf(s, ">", i + 4)
      k == IF j = 0 THEN 0 ELSE indexOf(s, "</div>", j + 1)
  IN  IF i = 0 \/ j = 0 \/ k = 0 THEN s
      ELSE IF includes(SubSeq(s, j + 1, k - 1), "\n")
           THEN replaceDivPair(s, i + 1, pre, mid, keepContent, post)
           ELSE SubSeq(s, 1, i - 1) \o pre \o SubSeq(s, i + 4, j - 1) \o mid
                  \o (IF keepContent THEN SubSeq(s, j + 1, k - 1) ELSE "") \o post
                  \o replaceDivPair(SubSeq(s, k + 6, Len(s)), 1, pre, mid, keepContent, post)

\* determineLikelyHeadingLevel with strict comparisons
determineHeadingLevelStrict(figmaNode) ==
  IF ~Present(figmaNode.style) THEN 2
  ELSE LET fontSize == figmaNode.style[1].fontSize
       IN  IF fontSize > 32 THEN 1
           ELSE IF fontSize > 24 THEN 2
           ELSE IF fontSize > 20 THEN 3
           ELSE IF fontSize > 18 THEN 4
           ELSE IF fontSize > 16 THEN 5
           ELSE 6

\* lines 4-16
determineLikelyHeadingLevel(figmaNode) ==
  IF ~Present(figmaNode.style) THEN 2
  ELSE LET fontSize == figmaNode.style[1].fontSize
       IN  IF fontSize >= 32 THEN 1
           ELSE IF fontSize >= 24 THEN 2
           ELSE IF fontSize >= 20 THEN 3
           ELSE IF fontSize >= 18 THEN 4
           ELSE IF fontSize >= 16 THEN 5
           ELSE 6

isLikelyButton(figmaNode) ==
  \/ includes(toLowerCase(figmaNode.name), "button")
  \/ includes(toLowerCase(figmaNode.name), "btn")
  \/ (figmaNode.cornerRadius > 0 /\ Len(figmaNode.fills) > 0)

isLikelyImage(figmaNode) ==
  \/ figmaNode.type = "IMAGE"
  \/ includes(toLowerCase(figmaNode.name), "image")
  \/ includes(toLowerCase(figmaNode.name), "img")
  \/ includes(toLowerCase(figmaNode.name), "icon")
  \/ \E i \in 1..Len(figmaNode.fills) : figmaNode.fills[i].type = "IMAGE"

isLikelyInputField(figmaNode) ==
  \/ includes(toLowerCase(figmaNode.name), "input")
  \/ includes(toLowerCase(figmaNode.name), "field")
  \/ includes(toLowerCase(figmaNode.name), "text field")
  \/ includes(toLowerCase(figmaNode.name), "form field")

\* the alternation img|image|icon|pic|picture, tried in this order
FillerWords == <<"img", "image", "icon", "pic", "picture">>

\* length of the first alternative of words that s starts with at index i
\* (case-insensitive), 0 when none does
firstAltAt(s, i, words) ==
  LET S == {w \in 1..Len(words) :
              /\ i + Len(words[w]) - 1 <= Len(s)
              /\ toLowerCase(SubSeq(s, i, i + Len(words[w]) - 1)) = words[w]}
  IN  IF S = {} THEN 0 ELSE Len(words[CHOOSE w \in S : \A v \in S : w <= v])

\* number of consecutive characters of [-_\s] in s from index i on
RECURSIVE sepRun(_, _)
sepRun(s, i) == IF i <= Len(s) /\ IsSeparator(charAt(s, i)) THEN 1 + sepRun(s, i + 1) ELSE 0

\* altText.replace(/^(img|image|icon|pic|picture)[-_\s]*/i, '')
stripLeadingFiller(s) ==
  LET n == firstAltAt(s, 1, FillerWords)
  IN  IF n = 0 THEN s ELSE SubSeq(s, n + 1 + sepRun(s, n + 1), Len(s))

\* altText.replace(/[-_\s]*(img|image|icon|pic|picture)$/i, ''): the leftmost
\* start from which separators and then one filler word reach the end
stripTrailingFiller(s) ==
  LET ok(p) == \E w \in 1..Len(FillerWords) :
                 toLowerCase(SubSeq(s, p + sepRun(s, p), Len(s))) = FillerWords[w]
      S == {p \in 1..Len(s) : ok(p)}
  IN  IF S = {} THEN s ELSE SubSeq(s, 1, (CHOOSE p \in S : \A q \in S : p <= q) - 1)

generateAltText(figmaNode) ==
  LET altText == stripTrailingFiller(stripLeadingFiller(figmaNode.name))
  IN  IF altText = "" \/ \E w \in 1..Len(FillerWords) : toLowerCase(altText) = FillerWords[w]
      THEN "Image" ELSE altText

\* id.replace(/[^a-zA-Z0-9]/g, '-')
RECURSIVE dashNonAlnum(_)
dashNonAlnum(s) ==
  IF Len(s) = 0 THEN ""
  ELSE (IF IsWordChar(Head(s)) /\ Head(s) # "_" THEN Head(s) ELSE "-") \o dashNonAlnum(Tail(s))

\* name.replace(/input|field|text field|form field/gi, '')
InputWords == <<"input", "field", "text field", "form field">>

RECURSIVE stripInputWords(_)
stripInputWords(s) ==
  IF Len(s) = 0 THEN ""
  ELSE LET n == firstAltAt(s, 1, InputWords)
       IN  IF n > 0 THEN stripInputWords(SubSeq(s, n + 1, Len(s)))
           ELSE Head(s) \o stripInputWords(Tail(s))

RECURSIVE trim(_)
trim(s) ==
  IF Len(s) = 0 THEN ""
  ELSE IF IsSpaceChar(Head(s)) THEN trim(Tail(s))
  ELSE IF IsSpaceChar(charAt(s, Len(s))) THEN trim(SubSeq(s, 1, Len(s) - 1))
  ELSE s

\* lines 82-89
\* headingPass renaming the opening tag of paragraphs as well
headingPassParagraphs(jsx, figmaNode) ==
  IF (figmaNode.type = "TEXT" \/ Len(figmaNode.characters) > 0)
     /\ Present(figmaNode.style) /\ figmaNode.style[1].fontSize >= 16
  THEN LET h == "h" \o ToString(determineLikelyHeadingLevel(figmaNode))
       IN  replaceTag(replaceDivPair(jsx, 1, "<" \o h, ">", TRUE, "</" \o h \o ">"),
                      "<p", "<" \o h, ">")
  ELSE jsx

headingPass(jsx, figmaNode) ==
  IF (figmaNode.type = "TEXT" \/ Len(figmaNode.characters) > 0)
     /\ Present(figmaNode.style) /\ figmaNode.style[1].fontSize >= 16
  THEN LET h == "h" \o ToString(determineLikelyHeadingLevel(figmaNode))
       IN  replaceDivPair(jsx, 1, "<" \o h, ">", TRUE, "</" \o h \o ">")
  ELSE jsx

\* lines 91-105
imagePass(jsx, figmaNode) ==
  IF isLikelyImage(figmaNode)
  THEN LET altText == generateAltText(figmaNode)
       IN  IF includes(jsx, "<img")
           THEN replaceTag(jsx, "<img", "<img", " alt=\"" \o altText \o "\">")
           ELSE IF includes(jsx, "<Image")
           THEN replaceTag(jsx, "<Image", "<Image", " alt=\"" \o altText \o "\">")
           ELSE replaceTag(jsx, "<div", "<div", " role=\"img\" aria-label=\"" \o altText \o "\">")
  ELSE jsx

\* lines 107-121; the second replace (lines 116-119) substitutes every
\* onClick={...} by itself and leaves the text as it is
buttonPass(jsx, figmaNode) ==
  IF isLikelyButton(figmaNode) /\ ~includes(jsx, "<button")
  THEN replaceTag(jsx, "<div", "<div",
         " role=\"button\" tabIndex={0} onKeyDown={(e) => e.key === \"Enter\" && onClick && onClick(e)}>")
  ELSE jsx

\* lines 123-140
inputPass(jsx, figmaNode) ==
  IF isLikelyInputField(figmaNode)
  THEN LET inputId == "input-" \o dashNonAlnum(figmaNode.id)
           stripped == trim(stripInputWords(figmaNode.name))
           labelText == IF stripped # "" THEN stripped ELSE "Input"
           pre == "<label htmlFor=\"" \o inputId \o "\">" \o labelText \o "<input"
           attrs == " id=\"" \o inputId \o "\" aria-label=\"" \o labelText \o "\""
       IN  IF includes(jsx, "<input")
           THEN replaceTag(jsx, "<input", pre, attrs \o "></label>")
           ELSE replaceDivPair(jsx, 1, pre, "", FALSE, attrs \o " /></label>")
  ELSE jsx

enhanceWithAccessibility(jsx, figmaNode) ==
  inputPass(buttonPass(imagePass(headingPass(jsx, figmaNode), figmaNode), figmaNode), figmaNode)

(***************************************************************************)
(* Component assembler and library builder (component-generator.ts         *)
(* 224-286)                                                                *)
(***************************************************************************)
\* uniqueProps keeping the last declaration of a name instead of the first
uniquePropsLast(props) ==
  LET keep == {i \in 1..Len(props) : \A j \in (i + 1)..Len(props) : props[j].name # props[i].name}
      RECURSIVE pick(_)
      pick(i) == IF i > Len(props) THEN << >>
                 ELSE (IF i \in keep THEN <<props[i]>> ELSE << >>) \o pick(i + 1)
  IN  pick(1)

\* lines 233-235: keep a property when no earlier one has its name
uniqueProps(props) ==
  LET keep == {i \in 1..Len(props) : \A j \in 1..(i - 1) : props[j].name # props[i].name}
      RECURSIVE pick(_)
      pick(i) == IF i > Len(props) THEN << >>
                 ELSE (IF i \in keep THEN <<props[i]>> ELSE << >>) \o pick(i + 1)
  IN  pick(1)

\* lines 243-246
interfaceLine(prop) ==
  "/** " \o prop.description \o " */\n  " \o prop.name
    \o (IF includes(prop.type, "?") \/ prop.defaultValue # NoDefault THEN "?" ELSE "")
    \o ": " \o prop.type \o ";"

\* lines 250-254
parameterOf(p) ==
  IF p.defaultValue # NoDefault THEN p.name \o " = " \o p.defaultValue ELSE p.name

\* lines 238-260: the component template
componentTemplate(componentName, imports, props, enhancedJSX) ==
  "\nimport React from 'react';\n" \o join(imports, "\n") \o "\n\ninterface "
    \o componentName \o "Props {\n  "
    \o join([i \in 1..Len(props) |-> interfaceLine(props[i])], "\n  ")
    \o "\n}\n\nexport const " \o componentName \o " = ({ \n  "
    \o join([i \in 1..Len(props) |-> parameterOf(props[i])], ", ")
    \o " \n}: " \o componentName \o "Props) => {\n  return (\n    "
    \o enhancedJSX \o "\n  );\n};\n"

\* prettier.format (lines 264-269) belongs to an external library.  Of its
\* effect the model keeps the removal of the blank line the template starts
\* with, so that formatted and unformatted source are different texts;
\* whether it raises is an input of the call.
RECURSIVE prettierFormat(_)
prettierFormat(code) ==
  IF Len(code) > 0 /\ Head(code) = "\n" THEN prettierFormat(Tail(code)) ELSE code

\* formatOrFallback whose catch block returns an empty source
formatOrEmpty(componentCode, formatterRaises) ==
  IF formatterRaises THEN "" ELSE prettierFormat(componentCode)

\* lines 262-273: what the call returns once the source is assembled
formatOrFallback(componentCode, formatterRaises) ==
  IF formatterRaises THEN componentCode ELSE prettierFormat(componentCode)

\* The name under which generateReactComponent emits the component.
emittedName(componentName) == componentName

\* lines 225-274.  Returns Threw when the translator raises; otherwise the
\* source, the unformatted source and whether a warning was logged.
generateReactComponent(componentName, figmaNode, formatterRaises) ==
  LET returned(componentCode, props) ==
        Return([code |-> formatOrFallback(componentCode, formatterRaises),
                unformatted |-> componentCode,
                uniqueProps |-> props,
                warned |-> formatterRaises])
      translated(componentParts) ==
        IF componentParts.threw THEN Threw
        ELSE returned(componentTemplate(emittedName(componentName), componentParts.val.imports,
                                        uniqueProps(componentParts.val.props),
                                        enhanceWithAccessibility(componentParts.val.jsx, figmaNode)),
                      uniqueProps(componentParts.val.props))
  IN  translated(figmaNodeToJSX(figmaNode, 0))

\* generatedComponents[componentName] = code with the earlier entry kept when
\* the key exists already
setEntryKeepFirst(entries, componentName, code) ==
  IF \E j \in 1..Len(entries) : entries[j].name = componentName THEN entries
  ELSE Append(entries, [name |-> componentName, code |-> code])

\* line 281: generatedComponents[componentName] = code.  The object is the
\* sequence of its entries in key insertion order (no name of the input sets
\* is an integer-like key); assigning to an existing key keeps its position.
setEntry(entries, componentName, code) ==
  IF \E j \in 1..Len(entries) : entries[j].name = componentName
  THEN [j \in 1..Len(entries) |->
          IF entries[j].name = componentName THEN [entries[j] EXCEPT !.code = code]
          ELSE entries[j]]
  ELSE Append(entries, [name |-> componentName, code |-> code])

\* lines 276-285: components are [name, node] pairs, formatterRaises[i] tells
\* whether the formatter raises on the source of the i-th one.
RECURSIVE libraryLoop(_, _, _, _)
libraryLoop(components, formatterRaises, i, generatedComponents) ==
  IF i > Len(components) THEN Return(generatedComponents)
  ELSE LET componentName == toComponentName(components[i].name)
           continued(r) ==
             IF r.threw THEN Threw
             ELSE libraryLoop(components, formatterRaises, i + 1,
                              setEntry(generatedComponents, componentName, r.val.code))
       IN  continued(generateReactComponent(componentName, components[i].node,
                                            formatterRaises[i]))

generateComponentLibrary(components, formatterRaises) ==
  libraryLoop(components, formatterRaises, 1, << >>)

(***************************************************************************)
(* React tool handlers (registerReactTools, component-generator.ts         *)
(* 294-575).  A handler is given the outcomes of its external calls: fetch *)
(* is [ok |-> FALSE] when the Figma request raises and otherwise names the *)
(* node ids the response holds a document for; remote[id] is that          *)
(* document.  The JSON text of a successful result is represented by the   *)
(* value it serializes (payload).  A handler yields the external steps it  *)
(* performed, in order, and its result.                                    *)
(***************************************************************************)
Raise(message) == [threw |-> TRUE, message |-> message]

\* messages of the errors raised by the collaborators
FetchErrorMessage == "Figma API error: Request failed"
TypeErrorMessage == "Cannot read properties of undefined"
FsErrorMessage == "EACCES: permission denied"

Step(name, ok) == [step |-> name, ok |-> ok]

ErrorResult(text) == [isError |-> TRUE, text |-> text]
OkResult(payload) == [isError |-> FALSE, payload |-> payload]

\* a catch block that reports the error without setting the error flag
toolResultUnflagged(prefix, outcome) ==
  IF outcome.threw THEN OkResult(prefix \o outcome.message) ELSE outcome.val

\* the try/catch around every handler body (lines 339-349, 404-414, 460-470,
\* 562-572)
toolResult(prefix, outcome) ==
  IF outcome.threw THEN ErrorResult(prefix \o outcome.message) ELSE outcome.val

\* lines 307-350
reactComponentTool(componentName, figmaNodeId, fetch, remote, formatterRaises) ==
  LET prefix == "Failed to generate React component: "
      handled(generated) ==
        IF ~fetch.ok
        THEN [steps |-> <<Step("getFileNodes", FALSE)>>,
              result |-> toolResult(prefix, Raise(FetchErrorMessage))]
        ELSE IF figmaNodeId \notin fetch.present
        THEN [steps |-> <<Step("getFileNodes", TRUE)>>,
              result |-> toolResult(prefix,
                           Return(ErrorResult("Figma node with ID " \o figmaNodeId \o " not found")))]
        ELSE IF generated.threw
        THEN [steps |-> <<Step("getFileNodes", TRUE), Step("generateReactComponent", FALSE)>>,
              result |-> toolResult(prefix, Raise(TypeErrorMessage))]
        ELSE [steps |-> <<Step("getFileNodes", TRUE), Step("generateReactComponent", TRUE)>>,
              result |-> toolResult(prefix, Return(OkResult(generated.val.code)))]
  IN  handled(generateReactComponent(componentName, remote[figmaNodeId], formatterRaises))

\* lines 376-381 and 515-520: the requested components whose node the fetch
\* returned, each with its document; ids[i] is the node id of components[i]
RECURSIVE componentsForGeneration(_, _, _, _, _)
componentsForGeneration(components, ids, present, remote, i) ==
  IF i > Len(components) THEN << >>
  ELSE (IF ids[i] \in present
        THEN <<[name |-> components[i].name, node |-> remote[ids[i]]]>> ELSE << >>)
         \o componentsForGeneration(components, ids, present, remote, i + 1)

\* the formatter outcomes of the components kept by the filter
RECURSIVE keptOutcomes(_, _, _, _)
keptOutcomes(ids, present, formatterRaises, i) ==
  IF i > Len(ids) THEN << >>
  ELSE (IF ids[i] \in present THEN <<formatterRaises[i]>> ELSE << >>)
         \o keptOutcomes(ids, present, formatterRaises, i + 1)

\* the generateReactComponent calls made by the loop of the library builder
\* (lines 279-282): it stops at the first one that raises
RECURSIVE generationSteps(_, _, _)
generationSteps(components, formatterRaises, i) ==
  IF i > Len(components) THEN << >>
  ELSE LET componentName == toComponentName(components[i].name)
           r == generateReactComponent(componentName, components[i].node, formatterRaises[i])
       IN  IF r.threw THEN <<Step("generate:" \o componentName, FALSE)>>
           ELSE <<Step("generate:" \o componentName, TRUE)>>
                  \o generationSteps(components, formatterRaises, i + 1)

\* lines 367-415; components are [name, nodeId] pairs
componentLibraryTool(components, fetch, remote, formatterRaises) ==
  LET prefix == "Failed to generate component library: "
      nodeIds == [i \in 1..Len(components) |-> components[i].nodeId]
      handled(generatedComponents, generated) ==
        IF ~fetch.ok
        THEN [steps |-> <<Step("getFileNodes", FALSE)>>,
              result |-> toolResult(prefix, Raise(FetchErrorMessage))]
        ELSE [steps |-> <<Step("getFileNodes", TRUE)>> \o generated,
              result |-> toolResult(prefix,
                           IF generatedComponents.threw THEN Raise(TypeErrorMessage)
                           ELSE Return(OkResult(generatedComponents.val)))]
      forGeneration == componentsForGeneration(components, nodeIds, fetch.present, remote, 1)
      outcomes == keptOutcomes(nodeIds, fetch.present, formatterRaises, 1)
  IN  handled(generateComponentLibrary(forGeneration, outcomes),
              generationSteps(forGeneration, outcomes, 1))

\* path.join(outputDir, name + ".tsx") for the directories and names of the
\* input sets, which need no normalisation
filePath(outputDir, name) == outputDir \o "/" \o name \o ".tsx"

\* lines 438-450 and 532-544: Promise.all starts the write of every entry
\* before any of them settles; failing is the set of positions whose write
\* is rejected
writeSteps(entries, failing) ==
  [i \in 1..Len(entries) |-> Step("writeFile:" \o entries[i].name, i \notin failing)]

writeResults(entries, outputDir) ==
  [i \in 1..Len(entries) |-> [name |-> entries[i].name, path |-> filePath(outputDir, entries[i].name)]]

\* lines 432-471; components are [name, code] pairs
writeComponentsTool(components, outputDir, mkdirOk, failing) ==
  LET prefix == "Failed to write components to files: "
  IN  IF ~mkdirOk
      THEN [steps |-> <<Step("mkdir", FALSE)>>,
            result |-> toolResult(prefix, Raise(FsErrorMessage))]
      ELSE [steps |-> <<Step("mkdir", TRUE)>> \o writeSteps(components, failing),
            result |-> toolResult(prefix,
                         IF failing \cap (1..Len(components)) # {} THEN Raise(FsErrorMessage)
                         ELSE Return(OkResult([results |-> writeResults(components, outputDir)])))]

\* lines 491-508: the COMPONENT and COMPONENT_SET nodes of a document, in
\* pre-order
RECURSIVE findComponents(_)
findComponents(node) ==
  (IF node.type = "COMPONENT" \/ node.type = "COMPONENT_SET"
   THEN <<[id |-> node.id, name |-> node.name, type |-> node.type]>> ELSE << >>)
    \o flatten([i \in 1..Len(node.children) |-> findComponents(node.children[i])])

\* lines 481-573
workflowTool(document, outputDir, fileOk, fetch, remote, formatterRaises, mkdirOk, failing) ==
  LET prefix == "Failed to execute Figma to React workflow: "
      components == findComponents(document)
      nodeIds == [i \in 1..Len(components) |-> components[i].id]
      fetched == <<Step("getFile", TRUE), Step("getFileNodes", TRUE)>>
      written(generated, entries) ==
        [steps |-> generated \o <<Step("mkdir", TRUE)>> \o writeSteps(entries, failing),
         result |-> toolResult(prefix,
                      IF failing \cap (1..Len(entries)) # {} THEN Raise(FsErrorMessage)
                      ELSE Return(OkResult(
                             [componentsFound |-> Len(components),
                              componentsGenerated |-> Len(entries),
                              results |-> writeResults(entries, outputDir)])))]
      handled(generatedComponents, generated) ==
        IF ~fileOk
        THEN [steps |-> <<Step("getFile", FALSE)>>,
              result |-> toolResult(prefix, Raise(FetchErrorMessage))]
        ELSE IF ~fetch.ok
        THEN [steps |-> <<Step("getFile", TRUE), Step("getFileNodes", FALSE)>>,
              result |-> toolResult(prefix, Raise(FetchErrorMessage))]
        ELSE IF generatedComponents.threw
        THEN [steps |-> generated, result |-> toolResult(prefix, Raise(TypeErrorMessage))]
        ELSE IF ~mkdirOk
        THEN [steps |-> generated \o <<Step("mkdir", FALSE)>>,
              result |-> toolResult(prefix, Raise(FsErrorMessage))]
        ELSE written(generated, generatedComponents.val)
      forGeneration == componentsForGeneration(components, nodeIds, fetch.present, remote, 1)
      outcomes == keptOutcomes(nodeIds, fetch.present, formatterRaises, 1)
  IN  handled(generateComponentLibrary(forGeneration, outcomes),
              fetched \o generationSteps(forGeneration, outcomes, 1))

(***************************************************************************)
(* Design nodes the checks draw their inputs from                          *)
(***************************************************************************)
MaxChildren == 2
MaxLevel == 1

BaseNode ==
  [id |-> "1:2", name |-> "", type |-> "FRAME", characters |-> "", children |-> << >>,
   fills |-> << >>, strokes |-> << >>, strokeWeight |-> 0, cornerRadius |-> 0,
   effects |-> << >>, absoluteBoundingBox |-> Absent, style |-> Absent]

Color(r, g, b) == Some([r |-> r, g |-> g, b |-> b])
SolidFill(color, opacity) == [type |-> "SOLID", color |-> color, opacity |-> opacity]
TextStyle(fontSize) ==
  Some([fontSize |-> fontSize, fontWeight |-> 0, lineHeight |-> 0, letterSpacing |-> 0])

Leaf(name, type) == [BaseNode EXCEPT !.name = name, !.type = type]
Container(name, type, kids) == [BaseNode EXCEPT !.name = name, !.type = type, !.children = kids]

TitleText == [Leaf("Title", "TEXT") EXCEPT !.characters = "Hi", !.style = TextStyle(32)]
LabelText == Leaf("btn label", "TEXT")
HeroImage == Leaf("Hero Image", "IMAGE")
IconShape == [Leaf("icon", "RECTANGLE") EXCEPT
                !.fills = <<SolidFill(Color(255, 255, 255), Absent)>>, !.cornerRadius = 8]
GuideSlice == Leaf("Guide", "SLICE")
\* a solid fill that carries no colour
BrokenShape == [Leaf("Dot", "ELLIPSE") EXCEPT !.fills = <<SolidFill(Absent, Absent)>>]

Leaves == {TitleText, LabelText, HeroImage, IconShape, GuideSlice, BrokenShape}

ContainerNames == {"Card", "Card Container", "Submit Button", "Wrapper btn", "Layout Variant"}

SeqsUpTo(S, n) == UNION {[1..k -> S] : k \in 0..n}

Containers1 ==
  {Container(name, type, kids) :
     name \in ContainerNames, type \in ContainerTypes, kids \in SeqsUpTo(Leaves, MaxChildren)}

NestedKids ==
  {TitleText, HeroImage,
   Container("Card", "GROUP", <<TitleText>>),
   Container("Section", "FRAME", <<TitleText, HeroImage>>),
   Container("Ok Button", "INSTANCE", <<LabelText>>)}

Containers2 ==
  {Container(name, "FRAME", kids) :
     name \in ContainerNames, kids \in SeqsUpTo(NestedKids, MaxChildren) \ {<< >>}}

TranslateNodes == Leaves \cup Containers1 \cup Containers2

NoCall == [op |-> "none"]

(***************************************************************************)
(* SpecTranslate: the translator applied to one node at one depth          *)
(***************************************************************************)
\* the translator is applied to the node and depth drawn by Init
Translate ==
  /\ translation.op = "input"
  /\ translation' = [op |-> "translate", node |-> translation.node, level |-> translation.level,
                     out |-> figmaNodeToJSX(translation.node, translation.level)]
  /\ UNCHANGED <<styling, generation, calls, toolCall, rewriting, main>>

InitTranslate ==
  /\ translation \in {[op |-> "input", node |-> node, level |-> level] :
                         node \in TranslateNodes, level \in 0..MaxLevel}
  /\ styling = NoCall /\ generation = NoCall /\ calls = << >> /\ toolCall = NoCall
  /\ rewriting = NoCall /\ main = NoCall

NextTranslate == Translate

SpecTranslate == InitTranslate /\ [][NextTranslate]_vars

\* the text between the opening tag and the closing tag of the outer element
elementContent(jsx, closing) ==
  SubSeq(jsx, indexOf(jsx, ">", 1) + 1, Len(jsx) - Len(closing))

endsWith(s, suffix) ==
  Len(s) >= Len(suffix) /\ SubSeq(s, Len(s) - Len(suffix) + 1, Len(s)) = suffix

startsWith(s, prefix) == Len(s) >= Len(prefix) /\ SubSeq(s, 1, Len(prefix)) = prefix

\* the children's own translations, laid out one per line at the given depth
expectedChildrenMarkup(node, level) ==
  IF Len(node.children) = 0 THEN ""
  ELSE join([i \in 1..Len(node.children) |->
               "\n" \o repeat("  ", level + 1) \o figmaNodeToJSX(node.children[i], level + 1).val.jsx],
            "") \o "\n" \o repeat("  ", level)

childrenExtracted(node) ==
  /\ Len(node.children) > 0
  /\ \E kw \in {"container", "wrapper", "layout", "section"} : includes(toLowerCase(node.name), kw)

plainContainerTranslated ==
  /\ translation.op = "translate"
  /\ translation.node.type \in ContainerTypes
  /\ ~includes(toLowerCase(translation.node.name), "button")
  /\ ~includes(toLowerCase(translation.node.name), "btn")
  /\ ~translation.out.threw

\* C1: a container node that is not button-like is emitted as one block
\* element whose content is the placeholder {children} exactly when a
\* children property was extracted for it (it has a child and a
\* container-like name), and the children's translated markup otherwise;
\* the placeholder and the children markup never appear together.
C1_ChildrenEitherOr ==
  plainContainerTranslated =>
    LET jsx == translation.out.val.jsx
        content == elementContent(jsx, "</div>")
        literal == expectedChildrenMarkup(translation.node, translation.level)
    IN  /\ startsWith(jsx, "<div ") /\ endsWith(jsx, "</div>")
        /\ (\E i \in 1..Len(extractProps(translation.node)) :
              extractProps(translation.node)[i].name = "children")
             <=> childrenExtracted(translation.node)
        /\ childrenExtracted(translation.node) => content = "{children}" /\ content # literal
        /\ ~childrenExtracted(translation.node) => content = literal /\ content # "{children}"

C1_Witness ==
  /\ plainContainerTranslated
  /\ translation.node.name = "Card Container"
  /\ Len(translation.node.children) = 2
  /\ translation.level = 1
  /\ elementContent(translation.out.val.jsx, "</div>") = "{children}"

parentTranslated ==
  /\ translation.op = "translate"
  /\ translation.node.type \in ContainerTypes
  /\ Len(translation.node.children) > 0
  /\ ~translation.out.threw

contains(seq, item) == \E k \in 1..Len(seq) : seq[k] = item

\* the result of translating the i-th child of the translated node
childResult(i) == figmaNodeToJSX(translation.node.children[i], translation.level + 1).val

\* the translated node put the placeholder in place of its children
placeholderEmitted ==
  /\ childrenExtracted(translation.node)
  /\ ~includes(toLowerCase(translation.node.name), "button")
  /\ ~includes(toLowerCase(translation.node.name), "btn")

\* C14 as stated: every property declaration and every import of every
\* child's translation result is contained in the parent's result.
C14_ChildrenMerged ==
  parentTranslated =>
    \A i \in 1..Len(translation.node.children) :
      /\ \A k \in 1..Len(childResult(i).props) :
           contains(translation.out.val.props, childResult(i).props[k])
      /\ \A k \in 1..Len(childResult(i).imports) :
           contains(translation.out.val.imports, childResult(i).imports[k])

\* C14: every import of every child's translation result is contained in
\* the parent's result, and so is every property declaration of every child
\* unless the parent is a non-button container for which a children property
\* was extracted.
C14_ChildrenMergedUnlessPlaceholder ==
  parentTranslated =>
    \A i \in 1..Len(translation.node.children) :
      /\ ~placeholderEmitted =>
           \A k \in 1..Len(childResult(i).props) :
             contains(translation.out.val.props, childResult(i).props[k])
      /\ \A k \in 1..Len(childResult(i).imports) :
           contains(translation.out.val.imports, childResult(i).imports[k])

C14_Witness ==
  /\ parentTranslated
  /\ translation.node.name = "Card"
  /\ translation.node.children = <<TitleText, HeroImage>>
  /\ contains(translation.out.val.props, textProp(TitleText))
  /\ \E k \in 1..Len(translation.out.val.props) : translation.out.val.props[k].name = "src"

containerTranslated ==
  /\ translation.op = "translate"
  /\ translation.node.type \in ContainerTypes
  /\ ~translation.out.threw

namesOf(props) == [k \in 1..Len(props) |-> props[k].name]

\* the names of a container's own properties in rule order: variant,
\* onClick, children, className
ownNames(node) ==
     (IF includes(toLowerCase(node.name), "variant") THEN <<"variant">> ELSE << >>)
  \o (IF includes(toLowerCase(node.name), "button") \/ includes(toLowerCase(node.name), "btn")
      THEN <<"onClick">> ELSE << >>)
  \o (IF childrenExtracted(node) THEN <<"children">> ELSE << >>)
  \o <<"className">>

\* the children's result properties, child after child
childrenProps ==
  flatten([i \in 1..Len(translation.node.children) |-> childResult(i).props])

\* C15 as stated: a container's result properties are its own properties in
\* rule order with className last, followed by the children's result
\* properties in the children's order.
C15_OwnThenChildren ==
  containerTranslated =>
    namesOf(translation.out.val.props) = ownNames(translation.node) \o namesOf(childrenProps)

\* C15: a container's result properties begin with its own properties in
\* rule order (variant, onClick, children, className last and once), and
\* the children's result properties follow in the children's order unless
\* the node is not button-like and a children property was extracted for
\* it, in which case nothing follows.
C15_OwnThenChildrenUnlessPlaceholder ==
  containerTranslated =>
    LET props == translation.out.val.props
        own == Len(ownNames(translation.node))
    IN  /\ Len(props) >= own
        /\ namesOf(SubSeq(props, 1, own)) = ownNames(translation.node)
        /\ SubSeq(props, own + 1, Len(props))
             = IF placeholderEmitted THEN << >> ELSE childrenProps

C15_Witness ==
  /\ containerTranslated
  /\ translation.node.name = "Submit Button"
  /\ translation.node.children = <<TitleText, HeroImage>>
  /\ namesOf(translation.out.val.props) = <<"onClick", "className", "title", "className", "src">>

(***************************************************************************)
(* SpecStyle: the style mapper applied to one node                         *)
(***************************************************************************)
ImageFill == [type |-> "IMAGE", color |-> Absent, opacity |-> Absent]
DropShadow(offset, radius) == [type |-> "DROP_SHADOW", offset |-> offset, radius |-> radius]
LayerBlur == [type |-> "LAYER_BLUR", offset |-> Absent, radius |-> 4]
Offset(x, y) == Some([x |-> x, y |-> y])
Box(width, height) == Some([width |-> width, height |-> height])

FillChoices ==
  {<< >>, <<SolidFill(Color(255, 255, 255), Absent)>>, <<SolidFill(Color(0, 0, 0), Some(500))>>,
   <<SolidFill(Absent, Absent)>>, <<ImageFill>>}
StyleChoices ==
  {Absent, TextStyle(16), TextStyle(17),
   Some([fontSize |-> 0, fontWeight |-> 700, lineHeight |-> 120, letterSpacing |-> -6])}
BoxChoices == {Absent, Box(Some(100), Some(8)), Box(Some(100), Absent), Box(Absent, Absent)}
RadiusChoices == {0, 8, 9}
StrokeChoices == {<< >>, <<SolidFill(Color(239, 68, 68), Absent)>>, <<SolidFill(Absent, Absent)>>}
WeightChoices == {0, 3}
EffectChoices ==
  {<< >>, <<DropShadow(Offset(0, 1), 2)>>, <<DropShadow(Absent, 2)>>,
   <<LayerBlur, DropShadow(Offset(0, 10), 12)>>}

MaxFontSize == 50
MaxCornerRadius == 26

\* every font size with every corner radius
ScaleNodes ==
  {[BaseNode EXCEPT !.style = TextStyle(f), !.cornerRadius = r] :
     f \in 0..MaxFontSize, r \in 0..MaxCornerRadius}

\* fill opacities in thousandths
OpacityChoices == {0, 4, 5, 250, 500, 994, 995, 999, 1000}
OpacityNodes ==
  {[BaseNode EXCEPT !.fills = <<SolidFill(Color(0, 0, 0), o)>>, !.style = t] :
     o \in {Absent} \cup {Some(v) : v \in OpacityChoices}, t \in {Absent, TextStyle(16)}}

StyleNodes ==
  {[BaseNode EXCEPT !.fills = f, !.style = t, !.absoluteBoundingBox = b, !.cornerRadius = r,
                    !.strokes = k, !.strokeWeight = w, !.effects = e] :
     f \in FillChoices, t \in StyleChoices, b \in BoxChoices, r \in RadiusChoices,
     k \in StrokeChoices, w \in WeightChoices, e \in EffectChoices}
    \cup ScaleNodes \cup OpacityNodes

MapStyles ==
  /\ styling.op = "input"
  /\ styling' = [op |-> "mapStyles", node |-> styling.node,
                 out |-> convertFigmaStylesToTailwind(styling.node)]
  /\ UNCHANGED <<translation, generation, calls, toolCall, rewriting, main>>

InitStyle ==
  /\ styling \in {[op |-> "input", node |-> node] : node \in StyleNodes}
  /\ translation = NoCall /\ generation = NoCall /\ calls = << >> /\ toolCall = NoCall
  /\ rewriting = NoCall /\ main = NoCall

NextStyle == MapStyles

SpecStyle == InitStyle /\ [][NextStyle]_vars

noVisualAttributes(node) ==
  /\ node.fills = << >> /\ node.strokes = << >> /\ node.effects = << >>
  /\ node.style = Absent /\ node.absoluteBoundingBox = Absent
  /\ node.cornerRadius = 0 /\ node.strokeWeight = 0

\* C9: the style mapper is total: whatever attributes and sub-fields of the
\* node are absent, it returns a token list without raising, and for a node
\* without any visual attribute that list is empty.
C9_MapStylesTotal ==
  styling.op = "mapStyles" =>
    /\ ~styling.out.threw
    /\ noVisualAttributes(styling.node) => styling.out.val = << >>

mapped == styling.op = "mapStyles" /\ ~styling.out.threw

FontTiers ==
  <<"text-xs", "text-sm", "text-base", "text-lg", "text-xl", "text-2xl", "text-3xl",
    "text-4xl", "text-5xl", "text-6xl">>
RoundingTiers ==
  <<"rounded-sm", "rounded", "rounded-md", "rounded-lg", "rounded-xl", "rounded-2xl",
    "rounded-3xl", "rounded-full">>

\* the position in tiers of the one token of tokens that is a tier
tierOf(tokens, tiers) ==
  CHOOSE k \in 1..Len(tiers) : \E i \in 1..Len(tokens) : tokens[i] = tiers[k]

hasToken(tokens, token) == \E i \in 1..Len(tokens) : tokens[i] = token

\* C13: a fontSize in (14, 16] gives the size token text-base and one in
\* (16, 18] gives text-lg; a cornerRadius in (6, 8] gives rounded-lg and one
\* in (8, 12] gives rounded-xl; and no smaller value is mapped to a higher
\* tier than the value at hand.
C13_InclusiveBreakpoints ==
  (mapped /\ Present(styling.node.style)) =>
    LET fontSize == styling.node.style[1].fontSize
        cornerRadius == styling.node.cornerRadius
        tokens == styling.out.val
    IN  /\ (14 < fontSize /\ fontSize <= 16) => hasToken(tokens, "text-base")
        /\ (16 < fontSize /\ fontSize <= 18) => hasToken(tokens, "text-lg")
        /\ (6 < cornerRadius /\ cornerRadius <= 8) => hasToken(tokens, "rounded-lg")
        /\ (8 < cornerRadius /\ cornerRadius <= 12) => hasToken(tokens, "rounded-xl")
        /\ \A smaller \in 1..fontSize :
             tierOf(<<mapFontSizeToTailwind(smaller)>>, FontTiers) <= tierOf(tokens, FontTiers)
        /\ \A smaller \in 1..cornerRadius :
             tierOf(radiusClasses([BaseNode EXCEPT !.cornerRadius = smaller]), RoundingTiers)
               <= tierOf(tokens, RoundingTiers)

C13_Witness ==
  /\ mapped /\ Present(styling.node.style)
  /\ styling.node.style[1].fontSize = 17 /\ styling.node.cornerRadius = 9
  /\ styling.out.val = <<"text-lg", "rounded-xl">>

\* Math.round(opacity * 100) of an opacity given in thousandths
roundedPercent(thousandths) == (thousandths + 5) \div 10

\* C18: with a solid first fill, the token after the colour token is an
\* opacity token exactly when the fill's opacity is present and below 1
\* (0 included), its value being round(opacity * 100); and no opacity token
\* is emitted otherwise.
C18_OpacityBelowOne ==
  (mapped /\ Len(styling.node.fills) > 0 /\ styling.node.fills[1].type = "SOLID") =>
    LET opacity == styling.node.fills[1].opacity
        tokens == styling.out.val
    IN  IF Present(opacity) /\ opacity[1] < 1000
        THEN Len(tokens) >= 2 /\ tokens[2] = "opacity-" \o ToString(roundedPercent(opacity[1]))
        ELSE \A i \in 1..Len(tokens) : ~startsWith(tokens[i], "opacity-")

(***************************************************************************)
(* SpecGen: one call of a ComponentGenerator method                        *)
(***************************************************************************)
MaxBatch == 2

ClassNameText == [Leaf("Class Name", "TEXT") EXCEPT !.characters = "big"]
EmailInput == [Leaf("Email Input", "RECTANGLE") EXCEPT !.id = "4:7"]
CardFrame == Container("Card", "FRAME", <<HeroImage>>)

\* the children given to the containers the assembler is applied to
GenKids ==
  {<<HeroImage>>, <<TitleText, HeroImage>>, <<TitleText, ClassNameText>>,
   <<Container("Card", "GROUP", <<TitleText>>), ClassNameText>>,
   <<Container("Ok Button", "INSTANCE", <<LabelText>>)>>,
   <<LabelText, BrokenShape>>}

GenNodes ==
  Leaves \cup {ClassNameText, EmailInput, Leaf("Ok btn", "RECTANGLE")}
    \cup {Container(name, "FRAME", kids) : name \in ContainerNames, kids \in GenKids}

ComponentNames == {"Card", "my card", "My-Card", "nav_bar"}

BatchNames == {"my card", "My-Card", "Hero"}
BatchNodes == {TitleText, HeroImage, BrokenShape}
BatchItems == {[name |-> n, node |-> d] : n \in BatchNames, d \in BatchNodes}

GenInputs ==
  {[op |-> "input", method |-> "generateReactComponent", componentName |-> n, node |-> d,
    formatterRaises |-> r] : n \in ComponentNames, d \in GenNodes, r \in BOOLEAN}

LibInputs ==
  UNION {{[op |-> "input", method |-> "generateComponentLibrary", components |-> c,
           formatterRaises |-> r] : r \in [1..Len(c) -> BOOLEAN]} :
         c \in SeqsUpTo(BatchItems, MaxBatch)}

GenerateReactComponent ==
  /\ generation.op = "input" /\ generation.method = "generateReactComponent"
  /\ generation' = [op |-> "generateReactComponent",
                    componentName |-> generation.componentName,
                    node |-> generation.node,
                    formatterRaises |-> generation.formatterRaises,
                    out |-> generateReactComponent(generation.componentName, generation.node,
                                                   generation.formatterRaises)]
  /\ UNCHANGED <<translation, styling, calls, toolCall, rewriting, main>>

GenerateComponentLibrary ==
  /\ generation.op = "input" /\ generation.method = "generateComponentLibrary"
  /\ generation' = [op |-> "generateComponentLibrary",
                    components |-> generation.components,
                    formatterRaises |-> generation.formatterRaises,
                    out |-> generateComponentLibrary(generation.components,
                                                     generation.formatterRaises)]
  /\ UNCHANGED <<translation, styling, calls, toolCall, rewriting, main>>

InitGen ==
  /\ generation \in GenInputs \cup LibInputs
  /\ translation = NoCall /\ styling = NoCall /\ calls = << >> /\ toolCall = NoCall
  /\ rewriting = NoCall /\ main = NoCall

NextGen == GenerateReactComponent \/ GenerateComponentLibrary

SpecGen == InitGen /\ [][NextGen]_vars

\* number of occurrences of sub in s
countOf(s, sub) ==
  Cardinality({i \in 1..(Len(s) - Len(sub) + 1) : SubSeq(s, i, i + Len(sub) - 1) = sub})

\* the text of s between the first occurrence of open and the next close
between(s, open, close) ==
  LET i == indexOf(s, open, 1)
      j == indexOf(s, close, i + Len(open))
  IN  SubSeq(s, i + Len(open), j - 1)

firstIndexOfName(props, n) ==
  CHOOSE i \in 1..Len(props) : props[i].name = n /\ \A j \in 1..(i - 1) : props[j].name # n

componentGenerated ==
  generation.op = "generateReactComponent" /\ ~generation.out.threw

\* C2: the interface and the parameter list of the assembled component hold
\* every property name of the translator's sequence exactly once; the
\* declaration kept for a name is its first one in that sequence and the
\* first occurrences keep their relative order.
C2_FirstOccurrenceWins ==
  componentGenerated =>
    LET props == figmaNodeToJSX(generation.node, 0).val.props
        u == generation.out.val.uniqueProps
        names == {props[i].name : i \in 1..Len(props)}
        source == generation.out.val.unformatted
        interface == between(source, "Props {\n  ", "\n}\n\nexport const ")
        parameters == ", " \o between(source, " = ({ \n  ", " \n}: ") \o ", "
    IN  /\ {u[i].name : i \in 1..Len(u)} = names
        /\ Len(u) = Cardinality(names)
        /\ \A i \in 1..Len(u) : u[i] = props[firstIndexOfName(props, u[i].name)]
        /\ \A i, j \in 1..Len(u) :
             i < j => firstIndexOfName(props, u[i].name) < firstIndexOfName(props, u[j].name)
        /\ \A i \in 1..Len(u) :
             LET d == u[i]
                 opt == IF d.defaultValue # "" THEN "?" ELSE ""
             IN  /\ countOf(interface, " */\n  " \o d.name \o ": ")
                      + countOf(interface, " */\n  " \o d.name \o "?: ") = 1
                 /\ countOf(interface, "/** " \o d.description \o " */\n  " \o d.name \o opt
                                         \o ": " \o d.type \o ";") = 1
                 /\ countOf(parameters, ", " \o d.name \o ", ")
                      + countOf(parameters, ", " \o d.name \o " = ") = 1
                 /\ d.defaultValue # "" =>
                      countOf(parameters, ", " \o d.name \o " = " \o d.defaultValue \o ", ") = 1

C2_Witness ==
  /\ componentGenerated
  /\ LET props == figmaNodeToJSX(generation.node, 0).val.props
     IN  /\ Len(props) > Len(generation.out.val.uniqueProps) + 1
         /\ \E i, j \in 1..Len(props) :
              i < j /\ props[i].name = props[j].name /\ props[i] # props[j]

\* C5: when the formatter raises on the assembled source, the call still
\* returns, and what it returns is exactly the unformatted source that was
\* handed to the formatter.
C5_FormatFallback ==
  (generation.op = "generateReactComponent" /\ generation.formatterRaises
     /\ ~figmaNodeToJSX(generation.node, 0).threw) =>
    /\ ~generation.out.threw
    /\ generation.out.val.code = generation.out.val.unformatted
    /\ startsWith(generation.out.val.code, "\nimport React from 'react';\n")
    /\ includes(generation.out.val.code, "export const " \o generation.componentName \o " = ({ ")

C5_Witness ==
  /\ componentGenerated
  /\ generation.formatterRaises
  /\ generation.node.type = "FRAME"
  /\ generation.out.val.warned
  /\ generation.out.val.code # prettierFormat(generation.out.val.code)

libraryCalled == generation.op = "generateComponentLibrary"

itemGenerates(item, raises) ==
  ~generateReactComponent(toComponentName(item.name), item.node, raises).threw

\* C4: a failure while one item of a batch is processed does not abort the
\* batch: the call returns a map, and the map holds an entry for every item
\* whose own processing does not fail.
C4_BatchNeverAborts ==
  libraryCalled =>
    /\ ~generation.out.threw
    /\ \A i \in 1..Len(generation.components) :
         itemGenerates(generation.components[i], generation.formatterRaises[i]) =>
           \E e \in 1..Len(generation.out.val) :
             generation.out.val[e].name = toComponentName(generation.components[i].name)

lastIndexOfName(components, key) ==
  CHOOSE i \in 1..Len(components) :
    /\ toComponentName(components[i].name) = key
    /\ \A j \in (i + 1)..Len(components) : toComponentName(components[j].name) # key

\* C6: the map returned by generateComponentLibrary has exactly one entry per
\* distinct sanitized name of the batch, and the source of an entry is the
\* one generated from the last pair of the batch that has this name.
C6_LastEntryWins ==
  (libraryCalled /\ ~generation.out.threw) =>
    LET entries == generation.out.val
        components == generation.components
        keys == {toComponentName(components[i].name) : i \in 1..Len(components)}
    IN  /\ {entries[e].name : e \in 1..Len(entries)} = keys
        /\ Len(entries) = Cardinality(keys)
        /\ \A e \in 1..Len(entries) :
             LET i == lastIndexOfName(components, entries[e].name)
             IN  entries[e].code =
                   generateReactComponent(entries[e].name, components[i].node,
                                          generation.formatterRaises[i]).val.code

C6_Witness ==
  /\ libraryCalled /\ ~generation.out.threw
  /\ Len(generation.components) = 2
  /\ generation.components[1].name = "my card" /\ generation.components[2].name = "My-Card"
  /\ generation.components[1].node = TitleText /\ generation.components[2].node = HeroImage
  /\ Len(generation.out.val) = 1
  /\ generation.out.val[1].name = "MyCard"
  /\ includes(generation.out.val[1].code, "<img")
  /\ ~includes(generation.out.val[1].code, "<p ")

(***************************************************************************)
(* SpecCalls: a sequence of generateReactComponent calls on one generator  *)
(***************************************************************************)
MaxCalls == 3

CallNodes == {TitleText, CardFrame, BrokenShape}
CallNames == {"Card", "my card"}

CallGenerate(componentName, node, formatterRaises) ==
  /\ Len(calls) < MaxCalls
  /\ calls' = Append(calls, [componentName |-> componentName, node |-> node,
                             formatterRaises |-> formatterRaises,
                             out |-> generateReactComponent(componentName, node, formatterRaises)])
  /\ UNCHANGED <<translation, styling, generation, toolCall, rewriting, main>>

InitCalls ==
  /\ calls = << >>
  /\ translation = NoCall /\ styling = NoCall /\ generation = NoCall /\ toolCall = NoCall
  /\ rewriting = NoCall /\ main = NoCall

NextCalls ==
  \E componentName \in CallNames, node \in CallNodes, formatterRaises \in BOOLEAN :
    CallGenerate(componentName, node, formatterRaises)

SpecCalls == InitCalls /\ [][NextCalls]_vars

sameInput(a, b) ==
  /\ a.componentName = b.componentName /\ a.node = b.node
  /\ a.formatterRaises = b.formatterRaises

WithId(node, id) == [node EXCEPT !.id = id]

HeroComponent == WithId(Container("Hero", "COMPONENT", <<HeroImage>>), "1:1")
CardComponent == WithId(Container("my card", "COMPONENT", <<TitleText>>), "1:2")
BrokenComponent == WithId(Container("Dots", "COMPONENT", <<BrokenShape>>), "1:3")
NavSet == WithId(Leaf("nav_bar", "COMPONENT_SET"), "1:4")
InnerCard == WithId(Container("My-Card", "COMPONENT", <<LabelText>>), "1:5")
OuterCard == WithId(Container("my card", "COMPONENT", <<InnerCard>>), "1:6")

RemoteNodes == {HeroComponent, CardComponent, BrokenComponent, NavSet, InnerCard, OuterCard}
NodeIds == {n.id : n \in RemoteNodes}

\* the document the Figma file holds for a node id
remoteNode == [id \in NodeIds |-> CHOOSE n \in RemoteNodes : n.id = id]

Page(kids) == WithId(Container("Page 1", "CANVAS", kids), "0:1")
Document(kids) == WithId(Container("Document", "DOCUMENT", <<Page(kids)>>), "0:0")

\* the Figma files: file key |-> document
FileKeys == {"fileA", "fileB", "fileC", "fileD"}
fileDocument(fileKey) ==
  IF fileKey = "fileA"
  THEN Document(<<HeroComponent, Container("Group", "FRAME", <<CardComponent>>), NavSet>>)
  ELSE IF fileKey = "fileB" THEN Document(<<HeroComponent, BrokenComponent, CardComponent>>)
  ELSE IF fileKey = "fileC" THEN Document(<<OuterCard, HeroComponent>>)
  ELSE Document(<<TitleText>>)

FetchOutcomes(ids) == {[ok |-> FALSE]} \cup {[ok |-> TRUE, present |-> P] : P \in SUBSET ids}

RequestItems ==
  {[name |-> "Hero", nodeId |-> "1:1"], [name |-> "my card", nodeId |-> "1:2"],
   [name |-> "Dots", nodeId |-> "1:3"], [name |-> "My-Card", nodeId |-> "1:5"],
   [name |-> "nav_bar", nodeId |-> "1:4"]}

SourceItems ==
  {[name |-> "Hero", code |-> "export const Hero = () => null;"],
   [name |-> "MyCard", code |-> "export const MyCard = () => null;"],
   [name |-> "MyCard", code |-> ""]}

OutputDirs == {"out", "src/components"}

Requests ==
       {[tool |-> "generateReactComponent", componentName |-> n, figmaNodeId |-> id] :
          n \in ComponentNames, id \in NodeIds}
  \cup {[tool |-> "generateComponentLibrary", components |-> c] :
          c \in SeqsUpTo(RequestItems, MaxBatch)}
  \cup {[tool |-> "writeComponentsToFiles", components |-> c, outputDir |-> d] :
          c \in SeqsUpTo(SourceItems, MaxBatch), d \in OutputDirs}
  \cup {[tool |-> "figmaToReactWorkflow", fileKey |-> k, outputDir |-> d] :
          k \in FileKeys, d \in OutputDirs}

Idle == [op |-> "idle"]

\* a tool call arrives
ReceiveRequest(request) ==
  /\ toolCall.op = "idle"
  /\ toolCall' = [op |-> "pending", request |-> request]
  /\ UNCHANGED <<translation, styling, generation, calls, rewriting, main>>

Done(request, env, handled) ==
  [op |-> "done", request |-> request, env |-> env,
   steps |-> handled.steps, result |-> handled.result]

HandleGenerateReactComponent ==
  /\ toolCall.op = "pending" /\ toolCall.request.tool = "generateReactComponent"
  /\ \E fetch \in FetchOutcomes({toolCall.request.figmaNodeId}), formatterRaises \in BOOLEAN :
       toolCall' = Done(toolCall.request,
                        [fetch |-> fetch, formatterRaises |-> formatterRaises],
                        reactComponentTool(toolCall.request.componentName,
                                           toolCall.request.figmaNodeId,
                                           fetch, remoteNode, formatterRaises))
  /\ UNCHANGED <<translation, styling, generation, calls, rewriting, main>>

HandleGenerateComponentLibrary ==
  /\ toolCall.op = "pending" /\ toolCall.request.tool = "generateComponentLibrary"
  /\ LET components == toolCall.request.components
     IN  \E fetch \in FetchOutcomes({components[i].nodeId : i \in 1..Len(components)}),
            formatterRaises \in [1..Len(components) -> BOOLEAN] :
           toolCall' = Done(toolCall.request,
                            [fetch |-> fetch, formatterRaises |-> formatterRaises],
                            componentLibraryTool(components, fetch, remoteNode, formatterRaises))
  /\ UNCHANGED <<translation, styling, generation, calls, rewriting, main>>

HandleWriteComponentsToFiles ==
  /\ toolCall.op = "pending" /\ toolCall.request.tool = "writeComponentsToFiles"
  /\ LET components == toolCall.request.components
     IN  \E mkdirOk \in BOOLEAN, failing \in SUBSET (1..Len(components)) :
           toolCall' = Done(toolCall.request,
                            [mkdirOk |-> mkdirOk, failing |-> failing],
                            writeComponentsTool(components, toolCall.request.outputDir,
                                                mkdirOk, failing))
  /\ UNCHANGED <<translation, styling, generation, calls, rewriting, main>>

HandleFigmaToReactWorkflow ==
  /\ toolCall.op = "pending" /\ toolCall.request.tool = "figmaToReactWorkflow"
  /\ LET document == fileDocument(toolCall.request.fileKey)
         components == findComponents(document)
         positions == 1..Len(components)
         NotReached == [ok |-> FALSE]
     IN  \E fileOk \in BOOLEAN :
         \E fetch \in IF fileOk THEN FetchOutcomes({components[i].id : i \in positions})
                      ELSE {NotReached} :
         \E formatterRaises \in IF fetch.ok THEN [positions -> BOOLEAN]
                                ELSE {[i \in positions |-> FALSE]} :
         \E mkdirOk \in IF fetch.ok THEN BOOLEAN ELSE {FALSE} :
         \E failing \in IF mkdirOk THEN SUBSET positions ELSE {{}} :
           toolCall' = Done(toolCall.request,
                            [fileOk |-> fileOk, fetch |-> fetch,
                             formatterRaises |-> formatterRaises,
                             mkdirOk |-> mkdirOk, failing |-> failing],
                            workflowTool(document, toolCall.request.outputDir, fileOk, fetch,
                                         remoteNode, formatterRaises, mkdirOk, failing))
  /\ UNCHANGED <<translation, styling, generation, calls, rewriting, main>>

\* the result is handed to the dispatch layer
Respond ==
  /\ toolCall.op = "done"
  /\ toolCall' = Idle
  /\ UNCHANGED <<translation, styling, generation, calls, rewriting, main>>

Init ==
  /\ toolCall = Idle
  /\ translation = NoCall /\ styling = NoCall /\ generation = NoCall /\ calls = << >>
  /\ rewriting = NoCall /\ main = NoCall

Next ==
  \/ \E request \in Requests : ReceiveRequest(request)
  \/ HandleGenerateReactComponent
  \/ HandleGenerateComponentLibrary
  \/ HandleWriteComponentsToFiles
  \/ HandleFigmaToReactWorkflow
  \/ Respond

Spec == Init /\ [][Next]_vars

callHandled == toolCall.op = "done"

batchTool == toolCall.request.tool \in {"generateComponentLibrary", "figmaToReactWorkflow"}

\* the [name, id] pairs a batch call names
batchComponents ==
  IF toolCall.request.tool = "generateComponentLibrary"
  THEN [i \in 1..Len(toolCall.request.components) |->
          [name |-> toolCall.request.components[i].name,
           id |-> toolCall.request.components[i].nodeId]]
  ELSE findComponents(fileDocument(toolCall.request.fileKey))

\* the external calls of the batch other than generation all succeed
batchCollaboratorsSucceed ==
  /\ toolCall.env.fetch.ok
  /\ toolCall.request.tool = "figmaToReactWorkflow" =>
       toolCall.env.fileOk /\ toolCall.env.mkdirOk /\ toolCall.env.failing = {}

distinctSanitizedNames(components) ==
  \A i, j \in 1..Len(components) :
    i # j => toComponentName(components[i].name) # toComponentName(components[j].name)

missingCount(components, present) ==
  Cardinality({i \in 1..Len(components) : components[i].id \notin present})

\* C3: a batch naming n nodes with pairwise distinct sanitized names, k of
\* them absent from the fetch result, ends without an error result, yields
\* exactly n - k components, and the workflow manifest reports
\* componentsFound = n and componentsGenerated = n - k.
C3_MissingNodesExcluded ==
  (callHandled /\ batchTool /\ batchCollaboratorsSucceed
     /\ distinctSanitizedNames(batchComponents)) =>
    LET n == Len(batchComponents)
        k == missingCount(batchComponents, toolCall.env.fetch.present)
        response == toolCall.result
    IN  /\ ~response.isError
        /\ toolCall.request.tool = "generateComponentLibrary" => Len(response.payload) = n - k
        /\ toolCall.request.tool = "figmaToReactWorkflow" =>
             /\ response.payload.componentsFound = n
             /\ response.payload.componentsGenerated = n - k
             /\ Len(response.payload.results) = n - k

\* the sources a successful generation call returns, each with the name that
\* was requested for it
emittedSources ==
  IF toolCall.request.tool = "generateReactComponent"
  THEN <<[requested |-> toolCall.request.componentName, code |-> toolCall.result.payload]>>
  ELSE LET components == toolCall.request.components
           kept == {i \in 1..Len(components) : components[i].nodeId \in toolCall.env.fetch.present}
       IN  [e \in 1..Len(toolCall.result.payload) |->
              [requested |->
                 components[CHOOSE i \in kept :
                              toComponentName(components[i].name) = toolCall.result.payload[e].name].name,
               code |-> toolCall.result.payload[e].code]]

\* C7: whoever calls the assembler (the single-component tool or the library
\* builder), the props interface and the exported component of the emitted
\* source are named by the PascalCase form of the requested name, never by
\* the raw requested string.
C7_NameSanitized ==
  (callHandled /\ toolCall.request.tool \in {"generateReactComponent", "generateComponentLibrary"}
     /\ ~toolCall.result.isError) =>
    \A e \in 1..Len(emittedSources) :
      LET requested == emittedSources[e].requested
          code == emittedSources[e].code
      IN  /\ includes(code, "interface " \o toComponentName(requested) \o "Props {")
          /\ includes(code, "export const " \o toComponentName(requested) \o " = ({")
          /\ requested # toComponentName(requested) =>
               ~includes(code, "interface " \o requested \o "Props {")

stageOf(step) ==
  IF step.step = "getFile" THEN 1
  ELSE IF step.step = "getFileNodes" THEN 2
  ELSE IF startsWith(step.step, "generate") THEN 3
  ELSE IF step.step = "mkdir" THEN 4
  ELSE 5

countSteps(steps, name) == Cardinality({i \in 1..Len(steps) : steps[i].step = name})

\* C8: a React tool handler always ends with a structured result.  A failed
\* fetch, an absent single node and a failed generation or file operation
\* give a result with the error flag and a message; a fetch is attempted
\* once; after a failed step no step of a later stage runs (the writes of one
\* Promise.all are all issued before any of them settles, so the only steps
\* listed after a rejected write are the other writes of the same batch); a
\* result without the error flag means that every step succeeded.
C8_StructuredResult ==
  callHandled =>
    LET steps == toolCall.steps
        response == toolCall.result
        failed == {i \in 1..Len(steps) : ~steps[i].ok}
    IN  /\ response.isError \in BOOLEAN
        /\ response.isError => Len(response.text) > 0
        /\ failed # {} => response.isError
        /\ (toolCall.request.tool = "generateReactComponent" /\ toolCall.env.fetch.ok
              /\ toolCall.request.figmaNodeId \notin toolCall.env.fetch.present) =>
             response.isError /\ Len(steps) = 1
        /\ countSteps(steps, "getFile") <= 1 /\ countSteps(steps, "getFileNodes") <= 1
        /\ \A i \in failed : \A j \in (i + 1)..Len(steps) :
             stageOf(steps[j]) = stageOf(steps[i]) /\ stageOf(steps[i]) = 5
        /\ \A i, j \in 1..Len(steps) : i < j => stageOf(steps[i]) <= stageOf(steps[j])
        /\ ~response.isError =>
             /\ failed = {}
             /\ toolCall.request.tool = "generateReactComponent" =>
                  {steps[i].step : i \in 1..Len(steps)} = {"getFileNodes", "generateReactComponent"}
             /\ toolCall.request.tool = "generateComponentLibrary" =>
                  countSteps(steps, "getFileNodes") = 1
             /\ toolCall.request.tool = "writeComponentsToFiles" =>
                  Len(steps) = 1 + Len(toolCall.request.components)
             /\ toolCall.request.tool = "figmaToReactWorkflow" =>
                  /\ countSteps(steps, "getFile") = 1 /\ countSteps(steps, "getFileNodes") = 1
                  /\ countSteps(steps, "mkdir") = 1

C8_Witness ==
  /\ callHandled
  /\ toolCall.request.tool = "figmaToReactWorkflow"
  /\ toolCall.env.fileOk /\ toolCall.env.fetch.ok /\ toolCall.env.mkdirOk
  /\ toolCall.result.isError
  /\ Len(toolCall.steps) = 4
  /\ toolCall.steps[3].ok /\ ~toolCall.steps[4].ok
  /\ stageOf(toolCall.steps[4]) = 3

(***************************************************************************)
(* SpecEnhance: the accessibility rewriter applied to one markup and node  *)
(***************************************************************************)
HelloText(name, style) == [Leaf(name, "TEXT") EXCEPT !.characters = "Hello", !.style = style]
Rounded(node) ==
  [node EXCEPT !.fills = <<SolidFill(Color(255, 255, 255), Absent)>>, !.cornerRadius = 8]

\* TEXT nodes of every font size, with and without a style
TextNodes ==
  {HelloText("Title", TextStyle(f)) : f \in 1..MaxFontSize}
    \cup {HelloText("Title", Absent), HelloText("Submit Button", TextStyle(32)),
          HelloText("Input label", TextStyle(16)), HelloText("Icon title", TextStyle(24)),
          HelloText("Icon Button", TextStyle(24))}

RewriteNodes ==
  TextNodes
    \cup {Container("Submit Button", "FRAME", <<LabelText>>), Leaf("Ok btn", "RECTANGLE"),
          Container("Card", "FRAME", <<TitleText>>), Leaf("Badge", "RECTANGLE"),
          Rounded(Leaf("Badge", "RECTANGLE")), IconShape, Leaf("Icon Button", "RECTANGLE"),
          Container("Image Button", "FRAME", << >>),
          HeroImage, Leaf("icon", "IMAGE"), Leaf("Logo", "IMAGE"), Leaf("img-avatar_pic", "IMAGE"),
          EmailInput, Rounded(EmailInput), Leaf("Search Field Button", "RECTANGLE"),
          Leaf("Icon Field Button", "RECTANGLE")}

\* markup handed to the rewriter besides the translator's own output
GenericMarkups ==
  {"<div>Hello</div>",
   "<div className=\"text-4xl title\">Hello</div>",
   "<div \n  className=\" submit-button\"\n>\n  <p className=\"\">{label}</p>\n</div>",
   "<div className=\"card\"><div className=\"dot\"></div></div>",
   "<button className=\"ok\">Ok</button>",
   "<img src=\"a.png\" />",
   "<input type=\"text\">",
   "<p className=\"\">{title}</p>"}

translatorMarkup(node) ==
  LET markup(r) == IF r.threw THEN {} ELSE {r.val.jsx}
  IN  markup(figmaNodeToJSX(node, 0))

RewriteInputs ==
  UNION {{[op |-> "input", jsx |-> jsx, node |-> node] :
            jsx \in GenericMarkups \cup translatorMarkup(node)} : node \in RewriteNodes}

Enhance ==
  /\ rewriting.op = "input"
  /\ rewriting' = [op |-> "enhance", jsx |-> rewriting.jsx, node |-> rewriting.node,
                   out |-> enhanceWithAccessibility(rewriting.jsx, rewriting.node)]
  /\ UNCHANGED <<translation, styling, generation, calls, toolCall, main>>

InitEnhance ==
  /\ rewriting \in RewriteInputs /\ main = NoCall
  /\ translation = NoCall /\ styling = NoCall /\ generation = NoCall /\ calls = << >>
  /\ toolCall = NoCall

NextEnhance == Enhance

SpecEnhance == InitEnhance /\ [][NextEnhance]_vars

enhanced == rewriting.op = "enhance"

\* the opening tag of the markup's first element, without its closing ">"
tagHead(jsx) == SubSeq(jsx, 1, indexOf(jsx, ">", 1) - 1)

ButtonAttributes ==
  " role=\"button\" tabIndex={0} onKeyDown={(e) => e.key === \"Enter\" && onClick && onClick(e)}>"

\* the attributes follow the text before them inside the first opening tag
inOpeningTag(out, attributes) ==
  LET k == indexOf(out, attributes, 1)
  IN  k > 0 /\ ~includes(SubSeq(out, 1, k - 1), ">")

\* C11: for a button-likely node whose markup is a generic div wrapper and
\* holds no button element, the rewriter's output has role="button",
\* tabIndex={0} and the Enter-key keydown handler in the wrapper's opening
\* tag, and what the tag held before is still there unchanged.
C11_ButtonAttributesAdded ==
  (enhanced /\ isLikelyButton(rewriting.node) /\ ~includes(rewriting.jsx, "<button")
     /\ startsWith(rewriting.jsx, "<div")) =>
    /\ startsWith(rewriting.out, tagHead(rewriting.jsx))
    /\ inOpeningTag(rewriting.out, ButtonAttributes)

\* a wrapper <div ...>content</div> on one line, with no div inside it
singleLineWrapper(jsx) ==
  /\ startsWith(jsx, "<div") /\ endsWith(jsx, "</div>")
  /\ ~includes(jsx, "\n") /\ countOf(jsx, "<div") = 1

\* the wrapper with its element name replaced, attributes and content kept
asElement(jsx, element) ==
  "<" \o element \o SubSeq(jsx, 5, Len(jsx) - 6) \o "</" \o element \o ">"

headingFor(fontSize) ==
  IF fontSize >= 32 THEN "h1"
  ELSE IF fontSize >= 24 THEN "h2"
  ELSE IF fontSize >= 20 THEN "h3"
  ELSE IF fontSize >= 18 THEN "h4"
  ELSE "h5"

\* C12: for a TEXT node and a single-line div wrapper, the rewriter turns the
\* wrapper into the heading element <hN ...>content</hN> when the node's
\* fontSize is at least 16 (N = 1 from 32, 2 from 24, 3 from 20, 4 from 18,
\* else 5), attributes and content kept; with a smaller fontSize or no style
\* the heading pass changes nothing, the output being what the later passes
\* make of the unchanged markup.
C12_HeadingPromotion ==
  (enhanced /\ rewriting.node.type = "TEXT" /\ singleLineWrapper(rewriting.jsx)) =>
    IF Present(rewriting.node.style) /\ rewriting.node.style[1].fontSize >= 16
    THEN rewriting.out = asElement(rewriting.jsx, headingFor(rewriting.node.style[1].fontSize))
    ELSE rewriting.out =
           inputPass(buttonPass(imagePass(rewriting.jsx, rewriting.node), rewriting.node),
                     rewriting.node)

C12_Witness ==
  /\ enhanced
  /\ rewriting.node.type = "TEXT" /\ rewriting.node.style = TextStyle(18)
  /\ rewriting.jsx = "<div className=\"text-4xl title\">Hello</div>"
  /\ rewriting.out = "<h4 className=\"text-4xl title\">Hello</h4>"

ImageAttributes(node) == " role=\"img\" aria-label=\"" \o generateAltText(node) \o "\""

\* C16: for a node that is both image-likely and button-likely whose markup
\* is a generic div wrapper holding no img and no button element, the opening
\* tag of the result is the original opening tag followed by the image
\* role/label pair and then the button role, tabIndex and keydown handler.
C16_ImageThenButton ==
  (/\ enhanced /\ isLikelyImage(rewriting.node) /\ isLikelyButton(rewriting.node)
   /\ startsWith(rewriting.jsx, "<div")
   /\ ~includes(rewriting.jsx, "<img") /\ ~includes(rewriting.jsx, "<Image")
   /\ ~includes(rewriting.jsx, "<button")) =>
    startsWith(rewriting.out,
               tagHead(rewriting.jsx) \o ImageAttributes(rewriting.node) \o ButtonAttributes)

buttonNamed(node) ==
  includes(toLowerCase(node.name), "button") \/ includes(toLowerCase(node.name), "btn")

\* C17: the rewriter takes a node for button-likely exactly when its name
\* contains "button" or "btn", which is exactly when extractProps emits
\* onClick for it; so only such a node's wrapper is given the button role.
C17_SameButtonHeuristic ==
  enhanced =>
    /\ isLikelyButton(rewriting.node) <=> buttonNamed(rewriting.node)
    /\ buttonNamed(rewriting.node)
         <=> \E k \in 1..Len(extractProps(rewriting.node)) :
               extractProps(rewriting.node)[k].name = "onClick"
    /\ (includes(rewriting.out, "role=\"button\"") /\ ~includes(rewriting.jsx, "role=\"button\""))
         => buttonNamed(rewriting.node)

(***************************************************************************)
(* The identifiers a generated component refers to                         *)
(***************************************************************************)
\* the markup between "return (" and ");" of the generated source
bodyOf(code) == between(code, ") => {\n  return (\n    ", "\n  );\n};\n")

isIdentifier(s) ==
  /\ Len(s) > 0
  /\ \A k \in 1..Len(s) : includes(LowerAZ \o UpperAZ, SubSeq(s, k, k))

\* the names bound as {name} in the body, and onClick when the body calls it
referencedIn(body) ==
  {between(SubSeq(body, i, Len(body)), "{", "}") :
     i \in {k \in 1..Len(body) : SubSeq(body, k, k) = "{"
                                  /\ isIdentifier(between(SubSeq(body, k, Len(body)), "{", "}"))}}
    \cup (IF includes(body, "onClick(") THEN {"onClick"} ELSE {})

interfaceOf(code) == between(code, "Props {\n", "\n}\n")
parametersOf(code) == ", " \o between(code, " = ({ \n  ", " \n}: ") \o ","

declaredIn(code, name) ==
  /\ includes(interfaceOf(code), "\n  " \o name \o ": ")
       \/ includes(interfaceOf(code), "\n  " \o name \o "?: ")
  /\ includes(parametersOf(code), ", " \o name \o ",")
       \/ includes(parametersOf(code), ", " \o name \o " = ")

\* C19: every identifier the body of a generated component refers to (a
\* text binding, onClick, the children placeholder) is declared in the
\* component's property interface and in its parameter list.
C19_ReferencesDeclared ==
  componentGenerated =>
    \A name \in referencedIn(bodyOf(generation.out.val.unformatted)) :
      /\ declaredIn(generation.out.val.unformatted, name)
      /\ \E k \in 1..Len(generation.out.val.uniqueProps) :
           generation.out.val.uniqueProps[k].name = name

\* the markup enhanced is the translator's markup of an IMAGE node
imageRootEnhanced ==
  /\ enhanced
  /\ rewriting.node.type = "IMAGE"
  /\ translatorMarkup(rewriting.node) = {rewriting.jsx}

\* C20: the img element of an IMAGE root that went through the translator
\* and the rewriter carries one alt attribute, whose value is the rewriter's
\* alt text, and still ends in "/>".
C20_SingleAltSelfClosing ==
  imageRootEnhanced =>
    /\ countOf(rewriting.out, " alt=\"") + countOf(rewriting.out, "\nalt=\"") = 1
    /\ includes(rewriting.out, "alt=\"" \o generateAltText(rewriting.node) \o "\"")
    /\ startsWith(rewriting.out, "<img")
    /\ endsWith(rewriting.out, "/>")

\* the markup enhanced is the translator's markup of a TEXT node
textRootEnhanced ==
  /\ enhanced
  /\ rewriting.node.type = "TEXT"
  /\ translatorMarkup(rewriting.node) = {rewriting.jsx}

\* C22: the translator's markup of a TEXT root is a paragraph element, the
\* heading pass leaves it as it is whatever the fontSize, and the enhanced
\* markup is still that paragraph element with no heading element in it.
C22_ParagraphKept ==
  textRootEnhanced =>
    /\ startsWith(rewriting.jsx, "<p ") /\ endsWith(rewriting.jsx, "</p>")
    /\ headingPass(rewriting.jsx, rewriting.node) = rewriting.jsx
    /\ startsWith(rewriting.out, "<p ") /\ endsWith(rewriting.out, "</p>")
    /\ \A level \in 1..6 : ~includes(rewriting.out, "<h" \o ToString(level))

C22_Witness ==
  /\ textRootEnhanced
  /\ rewriting.node.style = TextStyle(32)
  /\ rewriting.jsx = "<p className=\"text-4xl\">{title}</p>"
  /\ rewriting.out = "<p className=\"text-4xl\">{title}</p>"

(***************************************************************************)
(* SpecMain: the server process (index.ts)                                 *)
(***************************************************************************)
MaxRequests == 4

\* lines 38-39: the value of --transport=, stdio when the argument is absent
TransportTypes == {"stdio", "sse", "http"}

\* lines 23-27: the one McpServer of the process.  Of the library object the
\* model keeps the calls the process makes on it, in order.
newServer == [calls |-> << >>]

\* server.connect(transport), lines 46 and 67
serverConnect(srv, transport) ==
  [srv EXCEPT !.calls = Append(@, [method |-> "connect", transport |-> transport])]

\* server.close(), lines 70 and 88
serverClose(srv) ==
  [srv EXCEPT !.calls = Append(@, [method |-> "close", transport |-> 0])]

NoResponse == [status |-> 0, body |-> ""]

\* lines 61-68: the handler of GET /sse sets the stream headers, wraps the
\* response in a new transport and connects the shared server to it
onSseRequest(m) ==
  [m EXCEPT !.requests = Append(@, [stream |-> "open", contentType |-> "text/event-stream"]),
            !.server = serverConnect(@, Len(m.requests) + 1)]

\* the close listener calling server.close() only when no other request
\* is open
onRequestCloseWhenLast(m, i) ==
  [m EXCEPT !.requests[i].stream = "closed",
            !.server = IF \E j \in 1..Len(m.requests) : j # i /\ m.requests[j].stream = "open"
                       THEN @ ELSE serverClose(@)]

\* lines 69-71: the close listener of the i-th request
onRequestClose(m, i) ==
  [m EXCEPT !.requests[i].stream = "closed", !.server = serverClose(@)]

\* lines 41-47, 48-53, 81-83, 92-95: main picks the transport
StartMain ==
  /\ main.pc = "start"
  /\ main' = IF main.transportType = "stdio"
             THEN [main EXCEPT !.pc = "stdio", !.server = serverConnect(@, 0)]
             ELSE IF main.transportType = "sse"
             THEN [main EXCEPT !.pc = "listening"]
             ELSE [main EXCEPT !.pc = "exited", !.exitCode = 1]
  /\ UNCHANGED <<translation, styling, generation, calls, toolCall, rewriting>>

\* lines 56-58
GetHealth ==
  /\ main.pc = "listening"
  /\ main' = [main EXCEPT !.response = [status |-> 200, body |-> "OK"]]
  /\ UNCHANGED <<translation, styling, generation, calls, toolCall, rewriting>>

\* lines 61-72: a client opens an event stream
GetSse ==
  /\ main.pc = "listening"
  /\ Len(main.requests) < MaxRequests
  /\ main' = onSseRequest(main)
  /\ UNCHANGED <<translation, styling, generation, calls, toolCall, rewriting>>

\* lines 69-71: the request of a client is closed
RequestClose ==
  /\ main.pc = "listening"
  /\ \E i \in 1..Len(main.requests) :
       /\ main.requests[i].stream = "open"
       /\ main' = onRequestClose(main, i)
  /\ UNCHANGED <<translation, styling, generation, calls, toolCall, rewriting>>

\* lines 75-78
PostMessages ==
  /\ main.pc = "listening"
  /\ main' = [main EXCEPT !.response = [status |-> 200, body |-> "{\"status\":\"ok\"}"]]
  /\ UNCHANGED <<translation, styling, generation, calls, toolCall, rewriting>>

\* lines 86-91: the SIGINT handler installed in SSE mode
Sigint ==
  /\ main.pc = "listening"
  /\ main' = [main EXCEPT !.server = serverClose(@), !.pc = "exited", !.exitCode = 0]
  /\ UNCHANGED <<translation, styling, generation, calls, toolCall, rewriting>>

InitMain ==
  /\ main \in {[pc |-> "start", transportType |-> t, server |-> newServer, requests |-> << >>,
                response |-> NoResponse, exitCode |-> -1] : t \in TransportTypes}
  /\ translation = NoCall /\ styling = NoCall /\ generation = NoCall /\ calls = << >>
  /\ toolCall = NoCall /\ rewriting = NoCall

NextMain == StartMain \/ GetHealth \/ GetSse \/ RequestClose \/ PostMessages \/ Sigint

SpecMain == InitMain /\ [][NextMain]_vars

sseMode == main.pc = "listening" \/ (main.pc = "exited" /\ main.exitCode = 0)

closeCalls(srv) == Cardinality({k \in 1..Len(srv.calls) : srv.calls[k].method = "close"})

closedRequests == {i \in 1..Len(main.requests) : main.requests[i].stream = "closed"}

\* C21: in SSE mode every request's transport is connected to the one server
\* instance, and every closed request has called close on that instance,
\* whichever other requests are still open: the instance has received one
\* close call per closed request (and one more at shutdown).
C21_AnyCloseClosesSharedServer ==
  sseMode =>
    /\ \A i \in 1..Len(main.requests) :
         \E k \in 1..Len(main.server.calls) :
           main.server.calls[k] = [method |-> "connect", transport |-> i]
    /\ closeCalls(main.server)
         = Cardinality(closedRequests) + (IF main.pc = "exited" THEN 1 ELSE 0)

\* A and B are both connected, A disconnects, and the shared instance is
\* closed while the stream of B is open
C21_Witness ==
  /\ main.pc = "listening"
  /\ Len(main.requests) = 2
  /\ main.requests[1].stream = "closed" /\ main.requests[2].stream = "open"
  /\ main.server.calls = <<[method |-> "connect", transport |-> 1],
                           [method |-> "connect", transport |-> 2],
                           [method |-> "close", transport |-> 0]>>

====
